---- MODULE Spec2Model ----
(***************************************************************************)
(* Session discovery and deletion of claude-session-manager (sessions.ts). *)
(*                                                                         *)
(* File names and session ids are sequences of tokens, so that the prefix  *)
(* and suffix tests of the code are computed, not assumed.  The token      *)
(* ".jsonl" is the raw-log extension, "-" and "." are the separators the   *)
(* todo pattern looks for.                                                 *)
(*                                                                         *)
(* State: the per-project index documents and raw logs, the side files and *)
(* the todos area, what the file system refuses (unlistable, unremovable,  *)
(* todosListable), the deleteSession calls (one record per call, one       *)
(* action per await), the list the last getAllSessions returned and the    *)
(* warnings written to stderr by the call in progress.                     *)
(*                                                                         *)
(* Spec       the commands: discovery passes and awaited deletions          *)
(* SpecSettle one session, its removals settling in every order             *)
(* SpecScan   discovery over a wide choice of layouts and log contents      *)
(* SpecParse  discovery of one raw log over a wide choice of records        *)
(* SpecFaults discovery while reads, stats and listings fail                *)
(* SpecLabel  getSessionLabel, SpecSearch searchSessions and SpecSize       *)
(*            calculateSessionSize, each applied to many inputs (the input  *)
(*            is in the variable input, the value returned in output)       *)
(* SpecPath   the project path decoded from an encoded directory name,      *)
(*            SpecUsage sessionTokens and sessionDuration, in the same way  *)
(* SpecConcurrent two deleteSession calls on one project that overlap       *)
(* SpecEnrich the enrichment phase of getAllSessions, one action per        *)
(*            enrichment that completes; SpecEnrichFair the same with       *)
(*            every enrichment that can complete completing eventually      *)
(***************************************************************************)
EXTENDS Integers, Sequences, FiniteSets, TLC

VARIABLES index, logs, unlistable, files, todos, todosListable, unremovable,
          tmp, call, out, toDelete, parsed, fresh, stderr,
          fileStat, rootListable, faults, scanResult, input, output,
          journal, scan, hung

vars == <<index, logs, unlistable, files, todos, todosListable, unremovable,
          tmp, call, out, toDelete, parsed, fresh, stderr,
          fileStat, rootListable, faults, scanResult, input, output,
          journal, scan, hung>>

fsVars == <<index, logs, unlistable, files, todos, todosListable, unremovable, tmp,
            fileStat, rootListable, faults, hung>>

-----------------------------------------------------------------------------
(* Bounds *)

MaxIndexLen == 2
MaxLines == 2
MaxTok == 1
MaxUnremovable == 1
MaxRecords == 3
MaxTs == 2
MaxFaults == 2
MaxSessions == 3
MaxHung == 1
MaxPathLen == 4
MaxCandidates == 5
MaxTokens == 2

-----------------------------------------------------------------------------
(* Names *)

Ext == ".jsonl"

IdA == <<"a">>
IdAC == <<"a", "c">>
IdAB == <<"a", "-", "b">>

Ids == {IdA, IdAC, IdAB}

ProjectDirs == <<"p1", "p2">>

Projects == {ProjectDirs[i] : i \in 1..Len(ProjectDirs)}

IndexFileName == <<"sessions-index", ".json">>

\* f.startsWith(p)
StartsWith(f, p) == Len(f) >= Len(p) /\ SubSeq(f, 1, Len(p)) = p

\* f.endsWith(".jsonl")
EndsWithExt(f) == Len(f) >= 1 /\ f[Len(f)] = Ext

\* f.includes(p)
Includes(f, p) == \E i \in 0..(Len(f) - Len(p)) : SubSeq(f, i + 1, i + Len(p)) = p

\* f.replace(".jsonl", ""): the FIRST occurrence is removed
ReplaceExt(f) ==
    IF \E i \in 1..Len(f) : f[i] = Ext
    THEN LET i == CHOOSE j \in 1..Len(f) : f[j] = Ext /\ \A k \in 1..(j - 1) : f[k] # Ext
         IN  SubSeq(f, 1, i - 1) \o SubSeq(f, i + 1, Len(f))
    ELSE f

\* basename(filePath, ".jsonl"): a trailing extension is stripped, unless it is the whole name
Basename(f) ==
    IF Len(f) >= 2 /\ f[Len(f)] = Ext THEN SubSeq(f, 1, Len(f) - 1) ELSE f

LogName(id) == id \o <<Ext>>

\* a fixed enumeration of a finite set (the order readdir happens to return)
RECURSIVE SetToSeq(_)
SetToSeq(S) ==
    IF S = {} THEN <<>>
    ELSE LET x == CHOOSE y \in S : TRUE IN <<x>> \o SetToSeq(S \ {x})

Range(s) == {s[i] : i \in 1..Len(s)}

-----------------------------------------------------------------------------
(* Optional values: undefined is the empty tuple, a defined number n is <<n>> *)

Undefined == <<>>
Num(n) == <<n>>

\* x || undefined, for a number x
OrUndefined(n) == IF n = 0 THEN Undefined ELSE Num(n)

-----------------------------------------------------------------------------
(* Raw log records *)

\* a text is the sequence of its characters
NoPrompt == <<"N", "o", " ", "p", "r", "o", "m", "p", "t">>

FIRST_PROMPT_SLICE == 231

\* text.slice(0, n)
Slice(text, n) == SubSeq(text, 1, IF Len(text) < n THEN Len(text) ELSE n)

\* the content member of a record: missing, a string, or an array of parts
NoContent == [kind |-> "none", text |-> <<>>, parts |-> <<>>]
StringContent(t) == [kind |-> "string", text |-> t, parts |-> <<>>]
ArrayContent(ps) == [kind |-> "array", text |-> <<>>, parts |-> ps]

TextPart(t) == [type |-> "text", text |-> t]
ToolResultPart == [type |-> "tool_result", text |-> <<>>]

\* a parsed record; a timestamp is a positive time, 0 when the member is missing
Obj(type, role, usage, ts, mts, content, mcontent, title) ==
    [kind |-> "obj", type |-> type, role |-> role, usage |-> usage,
     timestamp |-> ts, messageTimestamp |-> mts,
     content |-> content, messageContent |-> mcontent, customTitle |-> title]

BlankLine == [kind |-> "blank"]
CorruptLine == [kind |-> "corrupt"]
UserLine == Obj("user", "user", Undefined, 0, 0, NoContent, NoContent, Undefined)
TitleLine == Obj("custom-title", "", Undefined, 0, 0, NoContent, NoContent, Undefined)

Usage(i, cc, cr, o) ==
    <<[input_tokens |-> i, cache_creation_input_tokens |-> cc,
       cache_read_input_tokens |-> cr, output_tokens |-> o]>>

AssistantLine(u) == Obj("assistant", "assistant", u, 0, 0, NoContent, NoContent, Undefined)

\* a user-typed record that carries a usage block: it is not an assistant record
UserWithUsage == Obj("user", "user", Usage(1, 1, 1, 1), 0, 0, NoContent, NoContent, Undefined)

Usages == {Undefined} \cup
          {Usage(i, cc, cr, o) : i \in 0..MaxTok, cc \in 0..1, cr \in 0..1, o \in 0..MaxTok}

Lines == {BlankLine, CorruptLine, UserLine, TitleLine, UserWithUsage} \cup
         {AssistantLine(u) : u \in Usages}

RECURSIVE SeqsUpTo(_, _)
SeqsUpTo(S, n) ==
    IF n = 0 THEN {<<>>}
    ELSE LET shorter == SeqsUpTo(S, n - 1)
         IN  shorter \cup {Append(s, x) : s \in {t \in shorter : Len(t) = n - 1}, x \in S}

LogContents == SeqsUpTo(Lines, MaxLines)

\* extractUsage counting only the base input tokens
extractUsageBaseOnly(obj) ==
    IF obj.usage = Undefined
    THEN [input |-> 0, output |-> 0]
    ELSE [input |-> obj.usage[1].input_tokens, output |-> obj.usage[1].output_tokens]

\* extractUsage
extractUsage(obj) ==
    IF obj.usage = Undefined
    THEN [input |-> 0, output |-> 0]
    ELSE LET u == obj.usage[1]
         IN  [input |-> u.input_tokens + u.cache_creation_input_tokens + u.cache_read_input_tokens,
              output |-> u.output_tokens]

\* obj["content"] ?? obj["message"]?.["content"]
ContentOf(line) == IF line.content.kind # "none" THEN line.content ELSE line.messageContent

\* the same taking the last text segment of an array payload
PromptFromLastText(content, prev) ==
    IF content.kind = "string" THEN Slice(content.text, FIRST_PROMPT_SLICE)
    ELSE IF content.kind = "array" /\ \E i \in 1..Len(content.parts) : content.parts[i].type = "text"
    THEN LET i == CHOOSE j \in 1..Len(content.parts) :
                      /\ content.parts[j].type = "text"
                      /\ \A k \in (j + 1)..Len(content.parts) : content.parts[k].type # "text"
         IN  Slice(content.parts[i].text, FIRST_PROMPT_SLICE)
    ELSE prev

\* lines 279-292: the prompt a user record gives, or prev when it gives none
PromptFrom(content, prev) ==
    IF content.kind = "string" THEN Slice(content.text, FIRST_PROMPT_SLICE)
    ELSE IF content.kind = "array" /\ \E i \in 1..Len(content.parts) : content.parts[i].type = "text"
    THEN LET i == CHOOSE j \in 1..Len(content.parts) :
                      /\ content.parts[j].type = "text"
                      /\ \A k \in 1..(j - 1) : content.parts[k].type # "text"
         IN  Slice(content.parts[i].text, FIRST_PROMPT_SLICE)
    ELSE prev

\* lines 257-264: the timestamp a record carries, its own before the nested one
TimestampOf(line) == IF line.timestamp # 0 THEN line.timestamp ELSE line.messageTimestamp

\* the same loop body taking the prompt of the first user record only
parseLineFirstUserOnly(acc, line) ==
    IF line.kind = "blank" THEN acc
    ELSE IF line.kind = "corrupt" THEN [acc EXCEPT !.hasLines = TRUE]
    ELSE IF line.type = "custom-title"
    THEN [acc EXCEPT !.hasLines = TRUE, !.customTitle = line.customTitle]
    ELSE LET u == IF line.type = "assistant" THEN extractUsage(line)
                  ELSE [input |-> 0, output |-> 0]
             ts == TimestampOf(line)
             isUser == line.type = "user" \/ line.role = "user"
         IN  [acc EXCEPT !.hasLines = TRUE,
                         !.firstTimestamp = IF ts # 0 /\ @ = 0 THEN ts ELSE @,
                         !.lastTimestamp = IF ts # 0 THEN ts ELSE @,
                         !.inputTokens = @ + u.input,
                         !.outputTokens = @ + u.output,
                         !.messageCount = @ + (IF isUser THEN 1 ELSE 0),
                         !.firstPrompt = IF isUser /\ acc.messageCount = 0
                                         THEN PromptFrom(ContentOf(line), @) ELSE @]

\* One iteration of the for-await loop of parseJsonlSession on the accumulator acc
parseLine(acc, line) ==
    IF line.kind = "blank" THEN acc
    ELSE IF line.kind = "corrupt" THEN [acc EXCEPT !.hasLines = TRUE]
    ELSE IF line.type = "custom-title"
    THEN [acc EXCEPT !.hasLines = TRUE, !.customTitle = line.customTitle]
    ELSE LET u == IF line.type = "assistant" THEN extractUsage(line)
                  ELSE [input |-> 0, output |-> 0]
             ts == TimestampOf(line)
             isUser == line.type = "user" \/ line.role = "user"
         IN  [acc EXCEPT !.hasLines = TRUE,
                         !.firstTimestamp = IF ts # 0 /\ @ = 0 THEN ts ELSE @,
                         !.lastTimestamp = IF ts # 0 THEN ts ELSE @,
                         !.inputTokens = @ + u.input,
                         !.outputTokens = @ + u.output,
                         !.messageCount = @ + (IF isUser THEN 1 ELSE 0),
                         !.firstPrompt = IF isUser /\ @ = NoPrompt
                                         THEN PromptFrom(ContentOf(line), @) ELSE @]

RECURSIVE parseLines(_, _)
parseLines(acc, content) ==
    IF content = <<>> THEN acc
    ELSE parseLines(parseLine(acc, Head(content)), Tail(content))

\* the locals of parseJsonlSession before the loop
ParseStart ==
    [hasLines |-> FALSE, customTitle |-> Undefined, firstTimestamp |-> 0, lastTimestamp |-> 0,
     firstPrompt |-> NoPrompt, messageCount |-> 0, inputTokens |-> 0, outputTokens |-> 0]

\* parseJsonlSession(join(dirPath, file), dirName): <<>> is undefined, <<r>> a result;
\* st is what stat(filePath) reports
parseJsonlSession(dirName, file, content, st) ==
    LET acc == parseLines(ParseStart, content)
    IN  IF ~acc.hasLines THEN Undefined
        ELSE <<[entry |-> [sessionId |-> Basename(file),
                           fullPath |-> <<dirName, file>>,
                           firstPrompt |-> acc.firstPrompt,
                           summary |-> Undefined,
                           customTitle |-> acc.customTitle,
                           messageCount |-> acc.messageCount,
                           created |-> IF acc.firstTimestamp # 0 THEN acc.firstTimestamp
                                       ELSE st.birthtimeMs,
                           modified |-> IF acc.lastTimestamp # 0 THEN acc.lastTimestamp
                                        ELSE st.mtimeMs],
                inputTokens |-> acc.inputTokens,
                outputTokens |-> acc.outputTokens,
                usingBirthtimeFallback |-> acc.firstTimestamp = 0]>>

\* the name of the project directory of the absolute path p: the leading separator
\* is removed and every other separator becomes the joining character "-"
EncodeProjectPath(p) ==
    LET rest == IF p # <<>> /\ Head(p) = "/" THEN Tail(p) ELSE p
    IN  [i \in 1..Len(rest) |-> IF rest[i] = "/" THEN "-" ELSE rest[i]]

\* the same decoding with replace("-", "/"), which replaces the first "-" only
projectPathFromDirNameFirstOnly(dirName) ==
    LET stripped == IF dirName # <<>> /\ Head(dirName) = "-" THEN Tail(dirName) ELSE dirName
        first == IF \E i \in 1..Len(stripped) : stripped[i] = "-"
                 THEN CHOOSE i \in 1..Len(stripped) :
                          stripped[i] = "-" /\ \A k \in 1..(i - 1) : stripped[k] # "-"
                 ELSE 0
    IN  <<"/">> \o [i \in 1..Len(stripped) |-> IF i = first THEN "/" ELSE stripped[i]]

\* line 305: "/" + dirName.replace(/^-/, "").replace(/-/g, "/")
projectPathFromDirName(dirName) ==
    LET stripped == IF dirName # <<>> /\ Head(dirName) = "-" THEN Tail(dirName) ELSE dirName
    IN  <<"/">> \o [i \in 1..Len(stripped) |-> IF stripped[i] = "-" THEN "/" ELSE stripped[i]]

-----------------------------------------------------------------------------
(* The documents of the file system *)

AbsentDoc == [kind |-> "absent"]

\* an index document {version, originalPath, entries}
IndexDoc(es) == [kind |-> "doc", version |-> 1, originalPath |-> "/orig", entries |-> es]

\* a well-formed JSON document that has no entries member
NoEntriesDoc == [kind |-> "noentries", version |-> 1, originalPath |-> "/orig"]

\* a well-formed JSON document whose entries member is not a list of entry objects
\* (a number, an object, a list holding null): iterating it, or reading the sessionId
\* of one of its elements, throws a TypeError
BadEntriesDoc == [kind |-> "badentries", version |-> 1, originalPath |-> "/orig"]

\* a file whose content is not JSON
MalformedDoc == [kind |-> "malformed"]

\* the entry the index of project p holds for session id
IndexedEntry(p, id) ==
    [sessionId |-> id, fullPath |-> <<p, LogName(id)>>,
     firstPrompt |-> <<"h", "i">>, summary |-> Undefined, customTitle |-> Undefined,
     messageCount |-> MaxLines + 1, created |-> 1, modified |-> 2]

\* readJson: the parsed document, or undefined when the file is missing, cannot be
\* read or is not JSON (a file written in part is not)
readJson(doc) == IF doc.kind \in {"absent", "malformed", "partial"} THEN Undefined ELSE <<doc>>

\* index?.entries
EntriesOf(doc) == IF doc.kind = "doc" THEN doc.entries ELSE <<>>

\* readdir(dirPath)
DirListing(lg, ix, p) ==
    DOMAIN lg[p] \cup (IF ix[p].kind = "absent" THEN {} ELSE {IndexFileName})

-----------------------------------------------------------------------------
(* Paths, sizes and side-car documents *)

LogPath(fullPath) == <<"projects", fullPath[1], fullPath[2]>>
SidePath(area, id) == <<area, id>>
TodoPath(f) == <<"todos", f>>

\* the operation op on path rejects
Faulty(ft, op, path) == <<op, path>> \in ft

\* one entry of a directory listing; a file whose stat rejects has size Undefined,
\* a directory carries a listing <<entries>>, or Undefined when its readdir rejects
FileNode(sz) == [type |-> "file", size |-> sz, children |-> Undefined]
DirNode(listing) == [type |-> "dir", size |-> Undefined, children |-> listing]
SymlinkNode == [type |-> "symlink", size |-> Undefined, children |-> Undefined]

\* fileSize(path) on the view fs of the file system
fileSize(fs, path) == IF path \in DOMAIN fs.stat THEN fs.stat[path] ELSE 0

\* dirSize on a listing d: <<entries>>, or Undefined when readdir(path) rejects
RECURSIVE dirSize(_)
dirSize(d) ==
    IF d = Undefined THEN 0
    ELSE LET es == d[1]
             RECURSIVE total(_)
             total(i) ==
                 IF i > Len(es) THEN 0
                 ELSE (IF es[i].type = "file" THEN es[i].size[1]
                       ELSE IF es[i].type = "dir" THEN dirSize(es[i].children)
                       ELSE 0) + total(i + 1)
         IN  IF \E i \in 1..Len(es) : es[i].type = "file" /\ es[i].size = Undefined
             THEN 0
             ELSE total(1)

\* dirSize(join(area, sessionId))
dirSizeAt(fs, path) == dirSize(IF path \in DOMAIN fs.dirs THEN <<fs.dirs[path]>> ELSE Undefined)

\* calculateSessionSize without the debug transcript
calculateSessionSizeNoDebug(fs, sessionId, jsonlPath) ==
    fileSize(fs, LogPath(jsonlPath))
        + dirSizeAt(fs, SidePath("file-history", sessionId))
        + dirSizeAt(fs, SidePath("tasks", sessionId))
        + fileSize(fs, SidePath("meta", sessionId))
        + fileSize(fs, SidePath("facets", sessionId))

\* calculateSessionSize
calculateSessionSize(fs, sessionId, jsonlPath) ==
    fileSize(fs, LogPath(jsonlPath))
        + fileSize(fs, SidePath("debug", sessionId))
        + dirSizeAt(fs, SidePath("file-history", sessionId))
        + dirSizeAt(fs, SidePath("tasks", sessionId))
        + fileSize(fs, SidePath("meta", sessionId))
        + fileSize(fs, SidePath("facets", sessionId))

\* the size the file system reports for a file, by area
SizeOf(path) ==
    IF path[1] = "projects" THEN 1
    ELSE IF path[1] = "debug" THEN 2
    ELSE IF path[1] = "file-history" THEN 4
    ELSE IF path[1] = "tasks" THEN 8
    ELSE IF path[1] = "meta" THEN 16
    ELSE 32

DirAreas == {"file-history", "tasks", "session-env"}

\* what stat and readdir answer on the file system (lg, fl) under the faults ft:
\* a session directory holds one file
FsView(lg, fl, ft) ==
    LET logPaths == UNION {{<<"projects", p, f>> : f \in DOMAIN lg[p]} : p \in Projects}
        sideFiles == {path \in fl : path[1] \notin DirAreas}
        dirPaths == {path \in fl : path[1] \in DirAreas}
    IN  [stat |-> [path \in {q \in logPaths \cup sideFiles : ~Faulty(ft, "stat", q)} |-> SizeOf(path)],
         dirs |-> [path \in {q \in dirPaths : ~Faulty(ft, "readdir", q)} |->
                      <<FileNode(IF Faulty(ft, "stat", path) THEN Undefined
                                 ELSE Num(SizeOf(path)))>>]]

\* the side-car documents of session id
MetaDoc(id) == [kind |-> "doc", first_prompt |-> <<"m">> \o id]
FacetsDoc(id) == [kind |-> "doc", brief_summary |-> <<"b">> \o id]

\* the file at a side-car path, as readJson finds it
SideCar(fl, ft, path, doc) ==
    IF path \notin fl \/ Faulty(ft, "readFile", path) THEN AbsentDoc
    ELSE IF Faulty(ft, "parse", path) THEN MalformedDoc
    ELSE doc

-----------------------------------------------------------------------------
(* getAllSessions *)

\* indexedIds of one project directory
IndexedIds(ix, p) == {e.sessionId : e \in Range(EntriesOf(ix[p]))}

\* phase 1, index part: every index entry is pushed
IndexedRaw(ix, p) ==
    [i \in 1..Len(EntriesOf(ix[p])) |->
        [entry |-> EntriesOf(ix[p])[i],
         jsonlPath |-> EntriesOf(ix[p])[i].fullPath,
         projectDirName |-> p,
         computedInputTokens |-> Undefined,
         computedOutputTokens |-> Undefined]]

\* the files handed to parseJsonlSession
JsonlFiles(lg, ix, ul, p) ==
    IF p \in ul THEN {}
    ELSE {f \in DirListing(lg, ix, p) : EndsWithExt(f) /\ ReplaceExt(f) \notin IndexedIds(ix, p)}

\* lines 413-428: a log that cannot be opened gives undefined, one whose stat rejects
\* a rejected promise; both are skipped
RECURSIVE ParsedRaw(_, _, _, _, _)
ParsedRaw(lg, p, fs, st, ft) ==
    IF fs = <<>> THEN <<>>
    ELSE LET path == <<"projects", p, Head(fs)>>
             r == IF Faulty(ft, "readFile", path) \/ Faulty(ft, "stat", path) THEN Undefined
                  ELSE parseJsonlSession(p, Head(fs), lg[p][Head(fs)], st)
             rest == ParsedRaw(lg, p, Tail(fs), st, ft)
         IN  IF r = Undefined THEN rest
             ELSE <<[entry |-> r[1].entry,
                     jsonlPath |-> r[1].entry.fullPath,
                     projectDirName |-> p,
                     computedInputTokens |-> OrUndefined(r[1].inputTokens),
                     computedOutputTokens |-> OrUndefined(r[1].outputTokens)]>> \o rest

RECURSIVE RawSessions(_, _, _, _, _, _)
RawSessions(lg, ix, ul, st, ft, dirs) ==
    IF dirs = <<>> THEN <<>>
    ELSE LET p == Head(dirs)
         IN  IndexedRaw(ix, p)
             \o ParsedRaw(lg, p, SetToSeq(JsonlFiles(lg, ix, ul, p)), st, ft)
             \o RawSessions(lg, ix, ul, st, ft, Tail(dirs))

\* enrichEntry with Promise.all semantics: one failed sub-fetch fails the three
enrichEntryAll(fs, fl, ft, sessionId, jsonlPath) ==
    LET meta == readJson(SideCar(fl, ft, SidePath("meta", sessionId), MetaDoc(sessionId)))
        facets == readJson(SideCar(fl, ft, SidePath("facets", sessionId), FacetsDoc(sessionId)))
        failed == \E op \in {"readFile", "parse"}, a \in {"meta", "facets"} :
                      Faulty(ft, op, SidePath(a, sessionId))
    IN  [meta |-> IF failed THEN Undefined ELSE meta,
         facets |-> IF failed THEN Undefined ELSE facets,
         totalSizeBytes |-> IF failed THEN 0
                            ELSE calculateSessionSize(fs, sessionId, jsonlPath)]

\* enrichEntry
enrichEntry(fs, fl, ft, sessionId, jsonlPath) ==
    [meta |-> readJson(SideCar(fl, ft, SidePath("meta", sessionId), MetaDoc(sessionId))),
     facets |-> readJson(SideCar(fl, ft, SidePath("facets", sessionId), FacetsDoc(sessionId))),
     totalSizeBytes |-> calculateSessionSize(fs, sessionId, jsonlPath)]

\* the phase 2 callback
Enrich(fs, fl, ft, raw) ==
    LET enriched == enrichEntry(fs, fl, ft, raw.entry.sessionId, raw.jsonlPath)
    IN  [entry |-> IF enriched.meta # Undefined /\ enriched.meta[1].first_prompt # <<>>
                      /\ raw.entry.firstPrompt = NoPrompt
                   THEN [raw.entry EXCEPT !.firstPrompt = enriched.meta[1].first_prompt]
                   ELSE raw.entry,
         meta |-> enriched.meta,
         facets |-> enriched.facets,
         totalSizeBytes |-> enriched.totalSizeBytes,
         projectDirName |-> raw.projectDirName,
         computedDurationMinutes |-> raw.entry.modified - raw.entry.created,
         computedInputTokens |-> raw.computedInputTokens,
         computedOutputTokens |-> raw.computedOutputTokens]

\* the project directories whose index makes phase 1 throw
ThrowingDirs(ix) == {i \in 1..Len(ProjectDirs) : ix[ProjectDirs[i]].kind = "badentries"}

\* getAllSessions rejects
getAllSessionsThrows(ix, rl) == rl /\ ThrowingDirs(ix) # {}

\* the list getAllSessions resolves to
getAllSessions(lg, ix, ul, fl, st, ft, rl) ==
    IF ~rl THEN <<>>
    ELSE LET raws == RawSessions(lg, ix, ul, st, ft, ProjectDirs)
             fs == FsView(lg, fl, ft)
         IN  [i \in 1..Len(raws) |-> Enrich(fs, fl, ft, raws[i])]

\* the raw logs handed to the parser before getAllSessions returns or throws
ParsedFiles(lg, ix, ul, rl) ==
    IF ~rl THEN {}
    ELSE UNION {{<<ProjectDirs[i], f>> : f \in JsonlFiles(lg, ix, ul, ProjectDirs[i])} :
                    i \in {j \in 1..Len(ProjectDirs) : \A k \in ThrowingDirs(ix) : j < k}}

\* the lines logWarn writes during the pass: the root or a project directory that
\* cannot be listed, and every parsed log without a timestamp
ScanWarnings(lg, ix, ul, st, ft, rl) ==
    IF ~rl THEN {<<"could not read projects dir">>}
    ELSE LET reached == {ProjectDirs[i] : i \in {j \in 1..Len(ProjectDirs) :
                                                    \A k \in ThrowingDirs(ix) : j < k}}
         IN  {<<"skipped directory", p>> : p \in reached \cap ul}
                 \cup {<<"no timestamps", Basename(pf[2])>> :
                         pf \in {qf \in ParsedFiles(lg, ix, ul, rl) :
                             LET path == <<"projects", qf[1], qf[2]>>
                                 r == parseJsonlSession(qf[1], qf[2], lg[qf[1]][qf[2]], st)
                             IN  /\ ~Faulty(ft, "readFile", path)
                                 /\ ~Faulty(ft, "stat", path)
                                 /\ r # Undefined
                                 /\ r[1].usingBirthtimeFallback}}

-----------------------------------------------------------------------------
(* cleanPrompt, isRealPrompt and getSessionLabel *)

IsSpace(ch) == ch \in {" ", "\n", "\t", "\r"}

\* text.trim()
RECURSIVE TrimStart(_)
TrimStart(t) == IF t # <<>> /\ IsSpace(Head(t)) THEN TrimStart(Tail(t)) ELSE t

RECURSIVE TrimEnd(_)
TrimEnd(t) == IF t # <<>> /\ IsSpace(t[Len(t)]) THEN TrimEnd(SubSeq(t, 1, Len(t) - 1)) ELSE t

Trim(t) == TrimEnd(TrimStart(t))

\* text.replace(/<[^>]+>/g, ""): a tag is "<", one or more characters other than ">",
\* and the next ">"
RECURSIVE RemoveTags(_)
RemoveTags(t) ==
    IF t = <<>> THEN <<>>
    ELSE IF Head(t) = "<" /\ Len(t) >= 3 /\ t[2] # ">" /\ \E j \in 3..Len(t) : t[j] = ">"
    THEN LET j == CHOOSE k \in 3..Len(t) : t[k] = ">" /\ \A m \in 3..(k - 1) : t[m] # ">"
         IN  RemoveTags(SubSeq(t, j + 1, Len(t)))
    ELSE <<Head(t)>> \o RemoveTags(Tail(t))

CaveatPrefix == <<"C", "a", "v", "e", "a", "t", ":">>

\* cleaned.replace(/^Caveat:.*?(?:\.\s*)/s, ""): up to the first "." and the white
\* space after it
StripCaveat(t) ==
    IF StartsWith(t, CaveatPrefix) /\ \E j \in 8..Len(t) : t[j] = "."
    THEN LET j == CHOOSE k \in 8..Len(t) : t[k] = "." /\ \A m \in 8..(k - 1) : t[m] # "."
         IN  TrimStart(SubSeq(t, j + 1, Len(t)))
    ELSE t

DoNotRespond ==
    <<"D", "O", " ", "N", "O", "T", " ", "r", "e", "s", "p", "o", "n", "d", " ", "t", "o", " ",
      "t", "h", "e", "s", "e", " ", "m", "e", "s", "s", "a", "g", "e", "s">>

RequestInterrupted ==
    <<"[", "R", "e", "q", "u", "e", "s", "t", " ", "i", "n", "t", "e", "r", "r", "u", "p", "t",
      "e", "d">>

\* cleaned.replace(/[\r\n\t]+/g, " ")
RECURSIVE BreaksToSpace(_)
BreaksToSpace(t) ==
    IF t = <<>> THEN <<>>
    ELSE IF Head(t) \in {"\n", "\t", "\r"}
    THEN IF Len(t) >= 2 /\ t[2] \in {"\n", "\t", "\r"} THEN BreaksToSpace(Tail(t))
         ELSE <<" ">> \o BreaksToSpace(Tail(t))
    ELSE <<Head(t)>> \o BreaksToSpace(Tail(t))

\* .replace(/ {2,}/g, " ")
RECURSIVE SqueezeSpaces(_)
SqueezeSpaces(t) ==
    IF t = <<>> THEN <<>>
    ELSE IF Head(t) = " " /\ Len(t) >= 2 /\ t[2] = " " THEN SqueezeSpaces(Tail(t))
    ELSE <<Head(t)>> \o SqueezeSpaces(Tail(t))

\* cleanPrompt
cleanPrompt(text) ==
    LET cleaned == Trim(StripCaveat(Trim(RemoveTags(text))))
    IN  IF StartsWith(cleaned, DoNotRespond) THEN <<>>
        ELSE IF StartsWith(cleaned, RequestInterrupted) THEN <<>>
        ELSE LET flat == SqueezeSpaces(BreaksToSpace(cleaned))
             IN  IF flat # <<>> THEN flat ELSE Trim(text)

\* isRealPrompt
isRealPrompt(text) == cleanPrompt(text) # <<>> /\ cleanPrompt(text) # NoPrompt

\* x?.member for an optional document x and a text member
Member(x, m) == IF x = Undefined THEN Undefined ELSE <<x[1][m]>>

\* the first source of srcs that is set, not empty and a real prompt, cleaned;
\* Undefined when there is none
RECURSIVE FirstReal(_)
FirstReal(srcs) ==
    IF srcs = <<>> THEN Undefined
    ELSE IF Head(srcs) # Undefined /\ Head(srcs)[1] # <<>> /\ isRealPrompt(Head(srcs)[1])
    THEN <<cleanPrompt(Head(srcs)[1])>>
    ELSE FirstReal(Tail(srcs))

\* getSessionLabel trying the entry's first prompt before the metadata's
getSessionLabelEntryFirst(session) ==
    LET hit == FirstReal(<<session.entry.customTitle,
                           session.entry.summary,
                           Member(session.facets, "brief_summary"),
                           <<session.entry.firstPrompt>>,
                           Member(session.meta, "first_prompt")>>)
    IN  IF hit # Undefined THEN hit[1] ELSE Slice(session.entry.sessionId, 8)

\* getSessionLabel
getSessionLabel(session) ==
    LET hit == FirstReal(<<session.entry.customTitle,
                           session.entry.summary,
                           Member(session.facets, "brief_summary"),
                           Member(session.meta, "first_prompt"),
                           <<session.entry.firstPrompt>>>>)
    IN  IF hit # Undefined THEN hit[1] ELSE Slice(session.entry.sessionId, 8)

-----------------------------------------------------------------------------
(* searchSessions; scores are counted in halves of a point *)

\* one point for a term found
TermScore == 2

\* SEARCH_WORD_BOUNDARY_BONUS (0.5) in halves of a point
SEARCH_WORD_BOUNDARY_BONUS == 1

\* toLowerCase() on the letters the inputs use
LowerChar(ch) == IF ch = "A" THEN "a" ELSE IF ch = "B" THEN "b" ELSE ch

toLowerCase(t) == [i \in 1..Len(t) |-> LowerChar(t[i])]

\* t.split(/\s+/): the pieces between the maximal runs of white space; a leading or a
\* trailing run leaves an empty piece, and the empty text gives one empty piece
RECURSIVE SplitFrom(_, _)
SplitFrom(t, piece) ==
    IF t = <<>> THEN <<piece>>
    ELSE IF IsSpace(Head(t)) THEN <<piece>> \o SplitFrom(TrimStart(t), <<>>)
    ELSE SplitFrom(Tail(t), Append(piece, Head(t)))

Split(t) == SplitFrom(t, <<>>)

\* x ?? "" for an optional text x
OrEmpty(x) == IF x = Undefined THEN <<>> ELSE x[1]

\* parts.join(" ")
RECURSIVE Join(_)
Join(parts) ==
    IF parts = <<>> THEN <<>>
    ELSE IF Len(parts) = 1 THEN parts[1]
    ELSE parts[1] \o <<" ">> \o Join(Tail(parts))

\* lines 492-503: the searchable string of a session
Searchable(s) ==
    toLowerCase(Join(<<OrEmpty(s.entry.customTitle),
                       OrEmpty(s.entry.summary),
                       s.entry.firstPrompt,
                       OrEmpty(Member(s.facets, "brief_summary")),
                       OrEmpty(Member(s.facets, "underlying_goal")),
                       OrEmpty(Member(s.facets, "session_type")),
                       s.entry.projectPath,
                       OrEmpty(s.entry.gitBranch)>>))

\* lines 505-514
RECURSIVE ScoreOf(_, _)
ScoreOf(searchable, terms) ==
    IF terms = <<>> THEN 0
    ELSE LET term == Head(terms)
             here == IF Includes(searchable, term)
                     THEN TermScore
                            + (IF Includes(searchable, <<" ">> \o term \o <<" ">>)
                                    \/ StartsWith(searchable, term \o <<" ">>)
                               THEN SEARCH_WORD_BOUNDARY_BONUS ELSE 0)
                     ELSE 0
         IN  here + ScoreOf(searchable, Tail(terms))

\* sort((a, b) => b.score - a.score): a stable sort, highest score first
RECURSIVE SortByScore(_)
SortByScore(scored) ==
    IF scored = <<>> THEN <<>>
    ELSE LET rest == SortByScore(SubSeq(scored, 1, Len(scored) - 1))
             x == scored[Len(scored)]
             before == SelectSeq(rest, LAMBDA y : y.score >= x.score)
             after == SelectSeq(rest, LAMBDA y : y.score < x.score)
         IN  before \o <<x>> \o after

\* searchSessions without the filter on the score
searchSessionsUnfiltered(sessions, query) ==
    LET terms == Split(toLowerCase(query))
        scored == [i \in 1..Len(sessions) |->
                      [session |-> sessions[i], score |-> ScoreOf(Searchable(sessions[i]), terms)]]
        sorted == SortByScore(scored)
    IN  [i \in 1..Len(sorted) |-> sorted[i].session]

\* searchSessions
searchSessions(sessions, query) ==
    LET terms == Split(toLowerCase(query))
        scored == [i \in 1..Len(sessions) |->
                      [session |-> sessions[i], score |-> ScoreOf(Searchable(sessions[i]), terms)]]
        sorted == SortByScore(SelectSeq(scored, LAMBDA x : x.score > 0))
    IN  [i \in 1..Len(sorted) |-> sorted[i].session]

-----------------------------------------------------------------------------
(* Removals *)

\* the seven removals deleteSession issues before it lists the todos area, in issue order
FixedDeletions(session) ==
    LET id == session.entry.sessionId
    IN  <<LogPath(session.entry.fullPath),
          SidePath("debug", id),
          SidePath("file-history", id),
          SidePath("tasks", id),
          SidePath("session-env", id),
          SidePath("meta", id),
          SidePath("facets", id)>>

\* the substring match f.includes(id)
TodoMatchesSubstring(f, id) == Includes(f, id)

\* f === id || f.startsWith(id + "-") || f.startsWith(id + ".")
TodoMatches(f, id) ==
    f = id \/ StartsWith(f, id \o <<"-">>) \/ StartsWith(f, id \o <<".">>)

\* the removals pushed for the todos area, in listing order
TodoDeletions(td, id) ==
    LET listing == SetToSeq(td)
        matching == SelectSeq(listing, LAMBDA f : TodoMatches(f, id))
    IN  [i \in 1..Len(matching) |-> TodoPath(matching[i])]

\* rm(path, {force: true}) rejects exactly for the paths the file system refuses to remove
RmRejects(ur, path) == path \in ur

\* the raw logs left of lg once path has been removed
LogsAfterRm(lg, path) ==
    IF path[1] = "projects" /\ path[2] \in Projects /\ path[3] \in DOMAIN lg[path[2]]
    THEN [lg EXCEPT ![path[2]] = [f \in (DOMAIN lg[path[2]]) \ {path[3]} |-> lg[path[2]][f]]]
    ELSE lg

\* a filter that also drops the entries whose id merely starts with id
FilterEntriesPrefix(es, id) == SelectSeq(es, LAMBDA e : ~StartsWith(e.sessionId, id))

\* index.entries.filter((e) => e.sessionId !== session.entry.sessionId)
FilterEntries(es, id) == SelectSeq(es, LAMBDA e : e.sessionId # id)

-----------------------------------------------------------------------------
(* deleteSession, one action per await *)

Calls == {1, 2}

\* what a command keeps of its last getAllSessions: nothing yet
NoJournal == [index |-> <<>>, failed |-> {}]

\* no getAllSessions call is in progress; progress is the list of the (loaded, total)
\* pairs the onProgress callback has received
IdleScan ==
    [pc |-> "idle", raws |-> <<>>, pending |-> {}, results |-> <<>>, loaded |-> 0,
     total |-> 0, progress |-> <<>>]


NoSession == <<>>

IdleCall ==
    [pc |-> "idle", session |-> NoSession, deletions |-> <<>>, pending |-> {},
     rejected |-> {}, newIndex |-> AbsentDoc, result |-> "none",
     pre |-> [index |-> <<>>, logs |-> <<>>, files |-> {}, todos |-> {}]]

InFlight(c) == call[c].pc \notin {"idle", "done"}

IndexOf(c) == call[c].session[1].projectDirName

IdOf(c) == call[c].session[1].entry.sessionId

\* lines 525-537: the seven removals are issued, then readdir(todosDir()) is awaited
DeleteStart(c, s) ==
    /\ ~InFlight(c)
    /\ call' = [call EXCEPT ![c] =
                    [pc |-> "todos", session |-> <<s>>, deletions |-> FixedDeletions(s),
                     pending |-> Range(FixedDeletions(s)), rejected |-> {},
                     newIndex |-> AbsentDoc, result |-> "none",
                     pre |-> [index |-> index, logs |-> logs, files |-> files, todos |-> todos]]]
    /\ stderr' = {}
    /\ fresh' = FALSE
    /\ UNCHANGED <<fsVars, out, scanResult, input, output, parsed, journal, scan>>

\* lines 540-549: the listing returns and the matching removals are pushed,
\* or it throws and the catch block only logs a debug line
ReadTodos(c) ==
    /\ call[c].pc = "todos"
    /\ LET more == IF todosListable THEN TodoDeletions(todos, IdOf(c)) ELSE <<>>
       IN  call' = [call EXCEPT ![c].pc = "settle",
                                ![c].deletions = @ \o more,
                                ![c].pending = @ \cup Range(more)]
    /\ UNCHANGED <<fsVars, out, scanResult, input, output, toDelete, parsed, journal, scan, fresh, stderr>>

\* one rm promise settles
RmSettle(c, path) ==
    /\ call[c].pc \in {"todos", "settle"}
    /\ path \in call[c].pending
    /\ IF RmRejects(unremovable, path)
       THEN /\ call' = [call EXCEPT ![c].pending = @ \ {path}, ![c].rejected = @ \cup {path}]
            /\ UNCHANGED <<logs, files, todos>>
       ELSE /\ call' = [call EXCEPT ![c].pending = @ \ {path}]
            /\ logs' = LogsAfterRm(logs, path)
            /\ files' = files \ {path}
            /\ todos' = IF path[1] = "todos" THEN todos \ {path[2]} ELSE todos
    /\ UNCHANGED <<index, unlistable, todosListable, unremovable, fileStat, rootListable, faults, hung, tmp, out, scanResult, input, output, toDelete, parsed, journal, scan, fresh, stderr>>

\* Promise.all instead: it settles as soon as one removal has rejected
AllSettledReadyFirstRejection(cl) == cl.pc = "settle" /\ (cl.pending = {} \/ cl.rejected # {})

\* when Promise.allSettled(deletions) resolves
AllSettledReady(cl) == cl.pc = "settle" /\ cl.pending = {}

\* the same without the early return: the index is updated whatever the failures
AllSettledNoReturn(c) ==
    /\ AllSettledReady(call[c])
    /\ call' = [call EXCEPT ![c].pc = "readIndex"]
    /\ stderr' = stderr \cup {<<"deletion failed", IdOf(c), r>> : r \in call[c].rejected}
    /\ UNCHANGED <<fsVars, out, scanResult, input, output, toDelete, parsed, journal, scan, fresh>>

\* lines 552-564: the failures are reported; with a failure the call returns here
AllSettled(c) ==
    /\ AllSettledReady(call[c])
    /\ IF call[c].rejected # {}
       THEN /\ call' = [call EXCEPT ![c].pc = "done", ![c].result = "skipped"]
            /\ stderr' = stderr \cup {<<"deletion failed", IdOf(c), r>> : r \in call[c].rejected}
                                 \cup {<<"skipping index update", IdOf(c)>>}
       ELSE /\ call' = [call EXCEPT ![c].pc = "readIndex"]
            /\ UNCHANGED stderr
    /\ UNCHANGED <<fsVars, out, scanResult, input, output, toDelete, parsed, journal, scan, fresh>>

\* lines 567-582: the index is read and filtered in memory
ReadIndex(c) ==
    /\ call[c].pc = "readIndex"
    /\ LET doc == readJson(index[IndexOf(c)])
       IN  IF doc = Undefined
           THEN call' = [call EXCEPT ![c].pc = "done", ![c].result = "noindex"]
           ELSE IF doc[1].kind \in {"noentries", "badentries"}
           THEN call' = [call EXCEPT ![c].pc = "done", ![c].result = "threw"]
           ELSE call' = [call EXCEPT ![c].pc = "write",
                                     ![c].newIndex = [doc[1] EXCEPT !.entries = FilterEntries(@, IdOf(c))]]
    /\ UNCHANGED <<fsVars, out, scanResult, input, output, toDelete, parsed, journal, scan, fresh, stderr>>

TmpPath(p) == <<"projects", p, IndexFileName \o <<".tmp">>>>

\* the catch block of lines 586-590: the error is reported and the tmp file is removed,
\* unless that removal fails too, which is ignored
IndexWriteFailed(c, tmpLeft) ==
    /\ call' = [call EXCEPT ![c].pc = "done", ![c].result = "writeFailed"]
    /\ stderr' = stderr \cup {<<"failed to update session index", IdOf(c)>>}
    /\ tmp' = [tmp EXCEPT ![IndexOf(c)] =
                  IF RmRejects(unremovable, TmpPath(IndexOf(c))) THEN tmpLeft ELSE AbsentDoc]
    /\ journal' = [journal EXCEPT !.failed = @ \cup {IdOf(c)}]

\* writeFile(indexPath, ...) instead: the new content is written over the index itself
WriteInPlace(c) ==
    /\ call[c].pc = "write"
    /\ \/ /\ index' = [index EXCEPT ![IndexOf(c)] = call[c].newIndex]
          /\ tmp' = [tmp EXCEPT ![IndexOf(c)] = call[c].newIndex]
          /\ call' = [call EXCEPT ![c].pc = "rename"]
          /\ UNCHANGED <<stderr, journal>>
       \/ /\ index' = [index EXCEPT ![IndexOf(c)] = [kind |-> "partial"]]
          /\ call' = [call EXCEPT ![c].pc = "done", ![c].result = "writeFailed"]
          /\ stderr' = stderr \cup {<<"failed to update session index", IdOf(c)>>}
          /\ journal' = [journal EXCEPT !.failed = @ \cup {IdOf(c)}]
          /\ UNCHANGED tmp
    /\ UNCHANGED <<logs, unlistable, files, todos, todosListable, unremovable, fileStat, rootListable, faults, hung, out, scanResult, input, output, toDelete, parsed, scan, fresh>>

\* line 584: writeFile(tmpPath, JSON.stringify(index, null, 2))
WriteTmp(c) ==
    /\ call[c].pc = "write"
    /\ \/ /\ tmp' = [tmp EXCEPT ![IndexOf(c)] = call[c].newIndex]
          /\ call' = [call EXCEPT ![c].pc = "rename"]
          /\ UNCHANGED <<stderr, journal>>
       \/ IndexWriteFailed(c, [kind |-> "partial"])
    /\ UNCHANGED <<index, logs, unlistable, files, todos, todosListable, unremovable, fileStat, rootListable, faults, hung, out, scanResult, input, output, toDelete, parsed, scan, fresh>>

\* rename(tmpPath, indexPath) that would succeed without a file at tmpPath
RenameUnguarded(c) ==
    /\ call[c].pc = "rename"
    /\ \/ /\ index' = [index EXCEPT ![IndexOf(c)] = tmp[IndexOf(c)]]
          /\ tmp' = [tmp EXCEPT ![IndexOf(c)] = AbsentDoc]
          /\ call' = [call EXCEPT ![c].pc = "done", ![c].result = "rewritten"]
          /\ UNCHANGED <<stderr, journal>>
       \/ /\ IndexWriteFailed(c, tmp[IndexOf(c)])
          /\ UNCHANGED index
    /\ UNCHANGED <<logs, unlistable, files, todos, todosListable, unremovable, fileStat, rootListable, faults, hung, out, scanResult, input, output, toDelete, parsed, scan, fresh>>

\* line 585: rename(tmpPath, indexPath); it moves the file that is at tmpPath now,
\* whoever wrote it, and rejects when there is none
Rename(c) ==
    /\ call[c].pc = "rename"
    /\ \/ /\ tmp[IndexOf(c)].kind # "absent"
          /\ index' = [index EXCEPT ![IndexOf(c)] = tmp[IndexOf(c)]]
          /\ tmp' = [tmp EXCEPT ![IndexOf(c)] = AbsentDoc]
          /\ call' = [call EXCEPT ![c].pc = "done", ![c].result = "rewritten"]
          /\ UNCHANGED <<stderr, journal>>
       \/ /\ IndexWriteFailed(c, tmp[IndexOf(c)])
          /\ UNCHANGED index
    /\ UNCHANGED <<logs, unlistable, files, todos, todosListable, unremovable, fileStat, rootListable, faults, hung, out, scanResult, input, output, toDelete, parsed, scan, fresh>>

\* a discovery pass: getAllSessions() is awaited by every command before it deletes;
\* when it rejects the command ends without a list
Discover ==
    /\ \A c \in Calls : ~InFlight(c)
    /\ IF getAllSessionsThrows(index, rootListable)
       THEN /\ out' = <<>>
            /\ scanResult' = "rejected"
            /\ fresh' = FALSE
       ELSE /\ out' = getAllSessions(logs, index, unlistable, files, fileStat, faults, rootListable)
            /\ scanResult' = "returned"
            /\ fresh' = TRUE
    /\ toDelete' = 1..Len(out')
    /\ parsed' = ParsedFiles(logs, index, unlistable, rootListable)
    /\ journal' = [index |-> index, failed |-> {}]
    /\ stderr' = stderr \cup ScanWarnings(logs, index, unlistable, fileStat, faults, rootListable)
    /\ UNCHANGED <<fsVars, call, input, output, scan>>

-----------------------------------------------------------------------------
(* The callers and the initial file systems *)

\* the same loop without the await: the next call starts while the previous one runs
DeleteWithoutAwait(i) ==
    /\ i \in toDelete
    /\ toDelete' = toDelete \ {i}
    /\ DeleteStart(IF InFlight(1) THEN 2 ELSE 1, out[i])

\* cmdClean, cmdInteractive and interactiveBulkDelete await each deleteSession(session)
\* of a session taken from the list getAllSessions returned
\* (toDelete holds the positions of that list not yet deleted: each is deleted at most once)
AwaitDelete(i) ==
    /\ \A c \in Calls : ~InFlight(c)
    /\ i \in toDelete
    /\ toDelete' = toDelete \ {i}
    /\ DeleteStart(1, out[i])

\* the removals of one call settle in issue order in Spec (they act on distinct paths)
SettleNext(cl) ==
    {cl.deletions[i] : i \in {j \in 1..Len(cl.deletions) :
        /\ cl.deletions[j] \in cl.pending
        /\ \A k \in 1..(j - 1) : cl.deletions[k] \notin cl.pending}}

\* what stat reports for a raw log
DefaultStat == [birthtimeMs |-> 1, mtimeMs |-> 2]

SideAreas == {"debug", "file-history", "tasks", "session-env", "meta", "facets"}

SideFilesOf(ids) == {SidePath(a, id) : a \in SideAreas, id \in ids}

DefaultLog == <<UserLine, AssistantLine(Usage(1, 0, 1, 1))>>

\* the raw logs of the session ids in ids, each with the default content
LogsOf(ids) == [f \in {LogName(id) : id \in ids} |-> DefaultLog]

TodoNames ==
    {IdA, IdA \o <<"-", "sub">>, IdA \o <<".", "json">>, IdAC \o <<"-", "other">>,
     IdAB, <<"x">> \o IdA}

Injective(s) == \A i, j \in 1..Len(s) : s[i] = s[j] => i = j

\* the index documents project p may hold: an index lists a session at most once
IndexChoices(p, ids) ==
    {AbsentDoc, NoEntriesDoc}
        \cup {IndexDoc(es) : es \in {t \in SeqsUpTo({IndexedEntry(p, id) : id \in ids}, MaxIndexLen) :
                                        Injective(t)}}

\* the paths the file system may refuse to remove
RefusablePaths ==
    Range(FixedDeletions([entry |-> IndexedEntry("p1", IdA)]))
        \cup {TodoPath(IdA \o <<"-", "sub">>), TmpPath("p1")}

Init ==
    /\ index \in {[p \in Projects |-> IF p = "p1" THEN d ELSE IndexDoc(<<>>)] :
                        d \in IndexChoices("p1", {IdA, IdAC})}
    /\ logs = [p \in Projects |-> IF p = "p1" THEN LogsOf(Ids) ELSE LogsOf({})]
    /\ unlistable = {}
    /\ files = SideFilesOf(Ids)
    /\ todos = TodoNames
    /\ todosListable \in BOOLEAN
    /\ unremovable \in {u \in SUBSET RefusablePaths : Cardinality(u) <= MaxUnremovable}
    /\ tmp = [p \in Projects |-> AbsentDoc]
    /\ call = [c \in Calls |-> IdleCall]
    /\ out = <<>>
    /\ toDelete = {}
    /\ fresh = FALSE
    /\ parsed = {}
    /\ journal = NoJournal
    /\ scan = IdleScan
    /\ hung = {}
    /\ stderr = {}
    /\ fileStat = DefaultStat
    /\ rootListable = TRUE
    /\ faults = {}
    /\ scanResult = "none"
    /\ input = <<>>
    /\ output = <<>>

Next ==
    \/ Discover
    \/ \E i \in toDelete : AwaitDelete(i)
    \/ ReadTodos(1)
    \/ \E path \in SettleNext(call[1]) : RmSettle(1, path)
    \/ AllSettled(1)
    \/ ReadIndex(1)
    \/ WriteTmp(1)
    \/ Rename(1)

Spec == Init /\ [][Next]_vars

-----------------------------------------------------------------------------
(* Discovery over many layouts *)

ScanFocus == LogName(IdA)

\* either a wide choice of layouts with the default log content, or a wide choice of
\* contents for one raw log
ScanInit ==
    /\ \/ /\ \E d1 \in IndexChoices("p1", Ids), d2 \in IndexChoices("p2", {IdA}) :
                index = [p \in Projects |-> IF p = "p1" THEN d1 ELSE d2]
          /\ \E l1 \in SUBSET Ids, l2 \in SUBSET {IdA} :
                logs = [p \in Projects |-> IF p = "p1" THEN LogsOf(l1) ELSE LogsOf(l2)]
          /\ unlistable \in SUBSET Projects
       \/ /\ \E d1 \in {AbsentDoc, IndexDoc(<<IndexedEntry("p1", IdAC)>>)} :
                index = [p \in Projects |-> IF p = "p1" THEN d1 ELSE AbsentDoc]
          /\ \E c \in LogContents :
                logs = [p \in Projects |->
                          IF p = "p1"
                          THEN [f \in {ScanFocus, LogName(IdAC)} |-> IF f = ScanFocus THEN c ELSE DefaultLog]
                          ELSE LogsOf({})]
          /\ unlistable = {}
    /\ files = SideFilesOf({IdA})
    /\ todos = {}
    /\ todosListable = TRUE
    /\ unremovable = {}
    /\ tmp = [p \in Projects |-> AbsentDoc]
    /\ call = [c \in Calls |-> IdleCall]
    /\ out = <<>>
    /\ toDelete = {}
    /\ fresh = FALSE
    /\ parsed = {}
    /\ journal = NoJournal
    /\ scan = IdleScan
    /\ hung = {}
    /\ stderr = {}
    /\ fileStat = DefaultStat
    /\ rootListable = TRUE
    /\ faults = {}
    /\ scanResult = "none"
    /\ input = <<>>
    /\ output = <<>>

ScanNext == Discover

SpecScan == ScanInit /\ [][ScanNext]_vars

-----------------------------------------------------------------------------
(* Parsing one raw log of many contents *)

Hi == <<"h", "i">>

\* a text one character longer than the prompt limit
LongText == [i \in 1..(FIRST_PROMPT_SLICE + 1) |-> "x"]

\* the payloads of a user record
PromptContents ==
    {NoContent, StringContent(Hi), StringContent(LongText), StringContent(NoPrompt),
     StringContent(<<>>), ArrayContent(<<ToolResultPart>>),
     ArrayContent(<<ToolResultPart, TextPart(<<"t">>), TextPart(Hi)>>)}

UserRec(content, ts) == Obj("user", "user", Undefined, ts, 0, content, NoContent, Undefined)

AssistantRec(ts) == Obj("assistant", "assistant", Usage(1, 0, 1, 1), ts, 0, NoContent, NoContent, Undefined)

\* a user record whose timestamp and payload are nested in its message
NestedRec == Obj("user", "user", Undefined, 0, MaxTs, NoContent, StringContent(<<"n">>), Undefined)

\* a record that is a user turn by its role only
RoleRec == Obj("message", "user", Undefined, 0, 0, StringContent(<<"r">>), NoContent, Undefined)

TitleRec == Obj("custom-title", "", Undefined, 0, 0, NoContent, NoContent, <<<<"T">>>>)

ParseLines ==
    {BlankLine, CorruptLine, TitleRec, NestedRec, RoleRec}
        \cup {UserRec(c, 0) : c \in PromptContents}
        \cup {UserRec(StringContent(Hi), ts) : ts \in 1..MaxTs}
        \cup {AssistantRec(ts) : ts \in 0..MaxTs}

\* the log without the lines that fail to parse
StripCorrupt(content) == SelectSeq(content, LAMBDA l : l.kind # "corrupt")

ParseTwin == LogName(IdAC)

\* p1/a.jsonl holds any content of at most MaxRecords lines, p1/ac.jsonl the same
\* content without its corrupt lines; no index, no side file
ParseInit ==
    /\ index = [p \in Projects |-> AbsentDoc]
    /\ \E c \in SeqsUpTo(ParseLines, MaxRecords) :
          logs = [p \in Projects |->
                    IF p = "p1"
                    THEN [f \in {ScanFocus, ParseTwin} |-> IF f = ScanFocus THEN c ELSE StripCorrupt(c)]
                    ELSE LogsOf({})]
    /\ unlistable = {}
    /\ files = {}
    /\ todos = {}
    /\ todosListable = TRUE
    /\ unremovable = {}
    /\ tmp = [p \in Projects |-> AbsentDoc]
    /\ call = [c \in Calls |-> IdleCall]
    /\ out = <<>>
    /\ toDelete = {}
    /\ fresh = FALSE
    /\ parsed = {}
    /\ journal = NoJournal
    /\ scan = IdleScan
    /\ hung = {}
    /\ stderr = {}
    /\ fileStat \in {[birthtimeMs |-> 1, mtimeMs |-> 1], DefaultStat}
    /\ rootListable = TRUE
    /\ faults = {}
    /\ scanResult = "none"
    /\ input = <<>>
    /\ output = <<>>

ParseNext == Discover

SpecParse == ParseInit /\ [][ParseNext]_vars

-----------------------------------------------------------------------------
(* Discovery on a file system that fails *)

\* the operations on the files of session a that may reject
FaultChoices ==
    {<<op, SidePath(a, IdA)>> : op \in {"readFile", "parse"}, a \in {"meta", "facets"}}
        \cup {<<"stat", SidePath(a, IdA)>> : a \in {"debug", "file-history", "tasks", "meta", "facets"}}
        \cup {<<"readdir", SidePath(a, IdA)>> : a \in {"file-history", "tasks"}}
        \cup {<<op, <<"projects", "p1", LogName(IdA)>>>> : op \in {"readFile", "stat"}}

\* p1 holds the raw logs of a and ac and any kind of index document, which lists a
\* when it lists anything; at most MaxFaults operations reject
FaultsInit ==
    /\ \E d1 \in {IndexDoc(<<IndexedEntry("p1", IdA)>>), AbsentDoc, MalformedDoc,
                   NoEntriesDoc, BadEntriesDoc},
          d2 \in {AbsentDoc, BadEntriesDoc} :
            index = [p \in Projects |-> IF p = "p1" THEN d1 ELSE d2]
    /\ logs = [p \in Projects |-> IF p = "p1" THEN LogsOf({IdA, IdAC}) ELSE LogsOf({})]
    /\ unlistable \in SUBSET {"p1"}
    /\ files \in {SideFilesOf({IdA, IdAC}), SideFilesOf({IdAC})}
    /\ todos = {}
    /\ todosListable = TRUE
    /\ unremovable = {}
    /\ tmp = [p \in Projects |-> AbsentDoc]
    /\ call = [c \in Calls |-> IdleCall]
    /\ out = <<>>
    /\ toDelete = {}
    /\ fresh = FALSE
    /\ parsed = {}
    /\ journal = NoJournal
    /\ scan = IdleScan
    /\ hung = {}
    /\ stderr = {}
    /\ fileStat = DefaultStat
    /\ rootListable \in BOOLEAN
    /\ faults \in {f \in SUBSET FaultChoices : Cardinality(f) <= MaxFaults}
    /\ scanResult = "none"
    /\ input = <<>>
    /\ output = <<>>

FaultsNext == Discover

SpecFaults == FaultsInit /\ [][FaultsNext]_vars

-----------------------------------------------------------------------------
(* The pure functions applied to many inputs *)

\* an empty file system on which nothing runs
Quiet ==
    /\ index = [p \in Projects |-> AbsentDoc]
    /\ logs = [p \in Projects |-> LogsOf({})]
    /\ unlistable = {}
    /\ files = {}
    /\ todos = {}
    /\ todosListable = TRUE
    /\ unremovable = {}
    /\ tmp = [p \in Projects |-> AbsentDoc]
    /\ call = [c \in Calls |-> IdleCall]
    /\ out = <<>>
    /\ toDelete = {}
    /\ fresh = FALSE
    /\ parsed = {}
    /\ journal = NoJournal
    /\ scan = IdleScan
    /\ hung = {}
    /\ stderr = {}
    /\ fileStat = DefaultStat
    /\ rootListable = TRUE
    /\ faults = {}
    /\ scanResult = "none"

quietVars == <<fsVars, call, out, toDelete, parsed, journal, scan, fresh, stderr, scanResult>>

Tagged(k) == <<"<", "b", ">", k, "<", "/", "b", ">">>
AllTag == <<"<", "b", ">">>

\* the texts a label source named k may hold
SourceTexts(k) == {<<>>, <<k>>, Tagged(k), NoPrompt, DoNotRespond, AllTag}

\* an optional text
OptionalTexts(k) == {Undefined} \cup {<<t>> : t \in SourceTexts(k)}

\* further first prompts: an interruption notice, a caveat before the prompt, blanks
\* only, a prompt over several lines, a caveat alone
PromptTexts ==
    SourceTexts("p")
        \cup {RequestInterrupted \o <<" ", "b", "y">>,
              CaveatPrefix \o <<" ", "c", ".", " ", "\n", "p">>,
              <<" ", "\n">>,
              <<" ", "p", "\n", "\t", " ", "q", " ">>,
              CaveatPrefix \o <<" ", "c", ".">>}

LongId == <<"0", "1", "2", "3", "4", "5", "6", "7", "8", "9">>

LabelSessions ==
    {[entry |-> [sessionId |-> id, customTitle |-> ct, summary |-> sm, firstPrompt |-> fp],
      facets |-> fc, meta |-> mt] :
        id \in {LongId, IdAB}, ct \in OptionalTexts("c"), sm \in OptionalTexts("s"),
        fp \in PromptTexts,
        fc \in {Undefined} \cup {<<[brief_summary |-> t]>> : t \in SourceTexts("f")},
        mt \in {Undefined} \cup {<<[first_prompt |-> t]>> : t \in SourceTexts("m")}}

LabelInit ==
    /\ Quiet
    /\ input \in LabelSessions
    /\ output = Undefined

\* getSessionLabel(session) is called
Label ==
    /\ output = Undefined
    /\ output' = <<getSessionLabel(input)>>
    /\ UNCHANGED <<quietVars, input>>

LabelNext == Label

SpecLabel == LabelInit /\ [][LabelNext]_vars

\* a session for the search: its number is its id
SearchSession(n, ct, sm, fp, pp, gb, fc) ==
    [entry |-> [sessionId |-> <<n>>, customTitle |-> ct, summary |-> sm, firstPrompt |-> fp,
                projectPath |-> pp, gitBranch |-> gb],
     facets |-> fc, meta |-> Undefined]

Facets(bs, ug, st) == <<[brief_summary |-> bs, underlying_goal |-> ug, session_type |-> st]>>

SearchSessions ==
    {SearchSession("1", <<<<"A", "b", " ", "c">>>>, Undefined, <<>>, <<>>, Undefined, Undefined),
     SearchSession("2", Undefined, Undefined, <<"a", "b", "c">>, <<>>, Undefined, Undefined),
     SearchSession("3", Undefined, Undefined, <<"b">>, <<>>, <<<<"c">>>>, Undefined),
     SearchSession("4", Undefined, Undefined, <<>>, <<>>, Undefined, Undefined),
     SearchSession("5", Undefined, <<<<"c", " ", "a", "b">>>>, <<>>, <<>>, Undefined, Undefined),
     SearchSession("6", Undefined, Undefined, <<"x">>, <<"/", "x">>, Undefined,
                   Facets(<<"a", "b">>, <<"b">>, <<>>)),
     SearchSession("7", Undefined, Undefined, NoPrompt, <<"/", "c">>, Undefined,
                   Facets(<<>>, <<>>, <<"c", " ", "a", "b", " ", "x">>))}

Queries ==
    {<<>>, <<" ">>, <<"a", "b">>, <<"A", "B">>, <<"a", "b", " ", "c">>, <<"z", "z">>,
     <<"b">>, <<"c", " ", " ", "x">>, <<"z", " ", "a", "b">>}

SearchInit ==
    /\ Quiet
    /\ input \in {[sessions |-> ss, query |-> q] :
                      ss \in {t \in SeqsUpTo(SearchSessions, MaxSessions) : Injective(t)},
                      q \in Queries}
    /\ output = Undefined

\* searchSessions(sessions, query) is called
Search ==
    /\ output = Undefined
    /\ output' = <<searchSessions(input.sessions, input.query)>>
    /\ UNCHANGED <<quietVars, input>>

SearchNext == Search

SpecSearch == SearchInit /\ [][SearchNext]_vars

\* the listings a session directory may have, for files of b, 16b and 32b bytes:
\* empty, flat, with a symbolic link, nested, with a subdirectory that cannot be listed,
\* with a file whose stat rejects (at the top or in a subdirectory)
Listings(b) ==
    {<<>>,
     <<FileNode(Num(b))>>,
     <<SymlinkNode, FileNode(Num(b))>>,
     <<FileNode(Num(b)), DirNode(<<<<FileNode(Num(16 * b))>>>>)>>,
     <<DirNode(<<<<DirNode(<<<<FileNode(Num(32 * b))>>>>), FileNode(Num(16 * b))>>>>)>>,
     <<FileNode(Num(b)), DirNode(Undefined)>>,
     <<FileNode(Num(b)), FileNode(Undefined)>>,
     <<DirNode(<<<<FileNode(Num(16 * b)), FileNode(Undefined)>>>>), FileNode(Num(b))>>}

\* the views of a file system that holds any of the four files of session a, any
\* listing (or none) of its two directories, and all the files of session ac
SizeViews ==
    LET own == {<<"projects", "p1", LogName(IdA)>>, SidePath("debug", IdA),
                SidePath("meta", IdA), SidePath("facets", IdA)}
        other == {<<"projects", "p1", LogName(IdAC)>>, SidePath("debug", IdAC),
                  SidePath("meta", IdAC), SidePath("facets", IdAC)}
        otherDirs == {SidePath("file-history", IdAC), SidePath("tasks", IdAC)}
        fhPath == SidePath("file-history", IdA)
        tkPath == SidePath("tasks", IdA)
    IN  {[stat |-> [path \in present \cup other |-> SizeOf(path)],
          dirs |-> [path \in otherDirs \cup (IF fh = Undefined THEN {} ELSE {fhPath})
                                       \cup (IF tk = Undefined THEN {} ELSE {tkPath}) |->
                       IF path = fhPath THEN fh[1]
                       ELSE IF path = tkPath THEN tk[1]
                       ELSE <<FileNode(Num(SizeOf(path)))>>]] :
            present \in SUBSET own,
            fh \in {Undefined} \cup {<<l>> : l \in Listings(64)},
            tk \in {Undefined} \cup {<<l>> : l \in Listings(1024)}}

SizeInit ==
    /\ Quiet
    /\ input \in {[fs |-> v, sessionId |-> IdA, jsonlPath |-> <<"p1", LogName(IdA)>>] :
                      v \in SizeViews}
    /\ output = Undefined

\* calculateSessionSize(sessionId, jsonlPath) is called
Size ==
    /\ output = Undefined
    /\ output' = <<calculateSessionSize(input.fs, input.sessionId, input.jsonlPath)>>
    /\ UNCHANGED <<quietVars, input>>

SizeNext == Size

SpecSize == SizeInit /\ [][SizeNext]_vars

\* the absolute paths of at most MaxPathLen characters after the leading separator
PathChars == {"/", "-", "a", "b"}

AbsolutePaths == {<<"/">> \o t : t \in SeqsUpTo(PathChars, MaxPathLen)}

PathInit ==
    /\ Quiet
    /\ input \in AbsolutePaths
    /\ output = Undefined

\* a raw log without a cwd member is parsed in the project directory that encodes the
\* path: its projectPath is decoded from the directory name
DecodePath ==
    /\ output = Undefined
    /\ output' = <<projectPathFromDirName(EncodeProjectPath(input))>>
    /\ UNCHANGED <<quietVars, input>>

PathNext == DecodePath

SpecPath == PathInit /\ [][PathNext]_vars

\* x ?? 0 for an optional number x
OrZero(x) == IF x = Undefined THEN 0 ELSE x[1]

\* x?.member for an optional document x and a numeric member
NumMember(x, m) == IF x = Undefined THEN Undefined ELSE x[1][m]

\* sessionTokens: a || b for two numbers is b when a is 0
sessionTokens(s) ==
    LET fromMeta == OrZero(NumMember(s.meta, "input_tokens"))
                        + OrZero(NumMember(s.meta, "output_tokens"))
    IN  IF fromMeta # 0 THEN fromMeta
        ELSE OrZero(s.computedInputTokens) + OrZero(s.computedOutputTokens)

\* sessionDuration
sessionDuration(s) ==
    IF NumMember(s.meta, "duration_minutes") # Undefined
    THEN NumMember(s.meta, "duration_minutes")
    ELSE s.computedDurationMinutes

\* a count that may be missing
OptionalCounts == {Undefined} \cup {Num(n) : n \in 0..MaxTokens}

\* the usage documents: session-meta is read without validation, a member may be missing
UsageMetas ==
    {Undefined}
        \cup {<<[input_tokens |-> i, output_tokens |-> o, duration_minutes |-> d]>> :
                  i \in OptionalCounts, o \in OptionalCounts, d \in OptionalCounts}

\* the sessions whose usage is shown; a computed token total is never 0 (line 425)
UsageSessions ==
    {[meta |-> mt, computedInputTokens |-> ci, computedOutputTokens |-> co,
      computedDurationMinutes |-> cd] :
        mt \in UsageMetas,
        ci \in OptionalCounts \ {Num(0)}, co \in OptionalCounts \ {Num(0)},
        cd \in OptionalCounts}

UsageInit ==
    /\ Quiet
    /\ input \in UsageSessions
    /\ output = Undefined

\* sessionTokens(s) is called
Tokens ==
    /\ output = Undefined
    /\ output' = <<[fn |-> "sessionTokens", value |-> Num(sessionTokens(input))]>>
    /\ UNCHANGED <<quietVars, input>>

\* sessionDuration(s) is called
Duration ==
    /\ output = Undefined
    /\ output' = <<[fn |-> "sessionDuration", value |-> sessionDuration(input)]>>
    /\ UNCHANGED <<quietVars, input>>

UsageNext == Tokens \/ Duration

SpecUsage == UsageInit /\ [][UsageNext]_vars

-----------------------------------------------------------------------------
(* One session whose removals settle in every order *)

SettleInit ==
    /\ \E d \in {AbsentDoc, IndexDoc(<<IndexedEntry("p1", IdA)>>)} :
          index = [p \in Projects |-> IF p = "p1" THEN d ELSE AbsentDoc]
    /\ logs = [p \in Projects |-> IF p = "p1" THEN LogsOf({IdA}) ELSE LogsOf({})]
    /\ unlistable = {}
    /\ files = SideFilesOf({IdA})
    /\ todos = {IdA, IdA \o <<"-", "sub">>, IdAC \o <<"-", "other">>}
    /\ todosListable \in BOOLEAN
    /\ unremovable \in {u \in SUBSET RefusablePaths : Cardinality(u) <= MaxUnremovable}
    /\ tmp = [p \in Projects |-> AbsentDoc]
    /\ call = [c \in Calls |-> IdleCall]
    /\ out = <<>>
    /\ toDelete = {}
    /\ fresh = FALSE
    /\ parsed = {}
    /\ journal = NoJournal
    /\ scan = IdleScan
    /\ hung = {}
    /\ stderr = {}
    /\ fileStat = DefaultStat
    /\ rootListable = TRUE
    /\ faults = {}
    /\ scanResult = "none"
    /\ input = <<>>
    /\ output = <<>>

SettleNextAny ==
    \/ Discover
    \/ \E i \in toDelete : AwaitDelete(i)
    \/ ReadTodos(1)
    \/ \E path \in call[1].pending : RmSettle(1, path)
    \/ AllSettled(1)
    \/ ReadIndex(1)
    \/ WriteTmp(1)
    \/ Rename(1)

SpecSettle == SettleInit /\ [][SettleNextAny]_vars

-----------------------------------------------------------------------------
(* getAllSessions, one action per enrichment that completes *)

\* the file operations enrichEntry issues for a candidate: a stat, a readFile or a
\* readdir on the raw log, the debug transcript, the two directories and the side-cars
EnrichAreas == {"projects", "debug", "file-history", "tasks", "meta", "facets"}

\* one of the operations issued for the candidate raw never settles
Hangs(hg, raw) ==
    \E h \in hg : h[1] = raw.projectDirName /\ h[2] = raw.entry.sessionId /\ h[3] \in EnrichAreas

\* lines 367-428: phase 1 runs to its end; it returns the empty list when the root
\* cannot be listed, rejects when an index document makes it throw, and otherwise
\* starts one enrichment per candidate
ScanStart ==
    /\ scan.pc = "idle"
    /\ \A c \in Calls : ~InFlight(c)
    /\ parsed' = ParsedFiles(logs, index, unlistable, rootListable)
    /\ IF getAllSessionsThrows(index, rootListable)
       THEN /\ scan' = [IdleScan EXCEPT !.pc = "rejected"]
            /\ scanResult' = "rejected"
            /\ out' = <<>>
       ELSE IF ~rootListable
       THEN /\ scan' = [IdleScan EXCEPT !.pc = "returned"]
            /\ scanResult' = "returned"
            /\ out' = <<>>
       ELSE LET raws == RawSessions(logs, index, unlistable, fileStat, faults, ProjectDirs)
            IN  /\ scan' = [IdleScan EXCEPT !.pc = "enrich", !.raws = raws,
                                            !.pending = 1..Len(raws), !.total = Len(raws)]
                /\ UNCHANGED <<scanResult, out>>
    /\ stderr' = stderr \cup ScanWarnings(logs, index, unlistable, fileStat, faults, rootListable)
    /\ UNCHANGED <<fsVars, call, toDelete, fresh, input, output, journal>>

\* the same callback reporting the position of the session instead of the counter
EnrichDoneByPosition(i) ==
    /\ scan.pc = "enrich"
    /\ i \in scan.pending
    /\ ~Hangs(hung, scan.raws[i])
    /\ scan' = [scan EXCEPT
                    !.pending = @ \ {i},
                    !.results = [j \in DOMAIN @ \cup {i} |->
                                    IF j = i THEN Enrich(FsView(logs, files, faults), files, faults, scan.raws[i])
                                    ELSE @[j]],
                    !.loaded = @ + 1,
                    !.progress = Append(@, <<i, scan.total>>)]
    /\ UNCHANGED <<fsVars, call, out, toDelete, parsed, fresh, stderr, scanResult, input, output, journal>>

\* the enrichments run one after the other: that of a session starts when those of
\* the sessions before it are done
EnrichDoneInOrder(i) ==
    /\ scan.pc = "enrich"
    /\ i \in scan.pending
    /\ \A j \in 1..(i - 1) : j \notin scan.pending
    /\ ~Hangs(hung, scan.raws[i])
    /\ scan' = [scan EXCEPT
                    !.pending = @ \ {i},
                    !.results = [j \in DOMAIN @ \cup {i} |->
                                    IF j = i THEN Enrich(FsView(logs, files, faults), files, faults, scan.raws[i])
                                    ELSE @[j]],
                    !.loaded = @ + 1,
                    !.progress = Append(@, <<scan.loaded + 1, scan.total>>)]
    /\ UNCHANGED <<fsVars, call, out, toDelete, parsed, fresh, stderr, scanResult, input, output, journal>>

\* lines 435-461: enrichEntry of candidate i has resolved and the rest of its callback
\* runs: loaded++, onProgress(loaded, total), and the enriched session is built
EnrichDone(i) ==
    /\ scan.pc = "enrich"
    /\ i \in scan.pending
    /\ ~Hangs(hung, scan.raws[i])
    /\ scan' = [scan EXCEPT
                    !.pending = @ \ {i},
                    !.results = [j \in DOMAIN @ \cup {i} |->
                                    IF j = i THEN Enrich(FsView(logs, files, faults), files, faults, scan.raws[i])
                                    ELSE @[j]],
                    !.loaded = @ + 1,
                    !.progress = Append(@, <<scan.loaded + 1, scan.total>>)]
    /\ UNCHANGED <<fsVars, call, out, toDelete, parsed, fresh, stderr, scanResult, input, output, journal>>

\* lines 464-468: Promise.allSettled has resolved and the list is returned
ScanReturn ==
    /\ scan.pc = "enrich"
    /\ scan.pending = {}
    /\ out' = [i \in 1..scan.total |-> scan.results[i]]
    /\ scanResult' = "returned"
    /\ fresh' = TRUE
    /\ toDelete' = 1..scan.total
    /\ journal' = [index |-> index, failed |-> {}]
    /\ scan' = [scan EXCEPT !.pc = "returned"]
    /\ UNCHANGED <<fsVars, call, parsed, stderr, input, output>>

\* the operations that may hang: those on the files of session a, and on the raw log
\* and the metadata of session ac, in p1
HangChoices ==
    {<<"p1", IdA, a>> : a \in EnrichAreas} \cup {<<"p1", IdAC, a>> : a \in {"projects", "meta"}}

\* p1 holds the raw logs of some sessions and any kind of index, p2 may hold an index
\* and a raw log of session a; reads may fail and operations may hang
EnrichInit ==
    /\ \E d1 \in {IndexDoc(<<IndexedEntry("p1", IdA)>>), AbsentDoc, BadEntriesDoc},
          d2 \in {AbsentDoc, IndexDoc(<<IndexedEntry("p2", IdA)>>)} :
            index = [p \in Projects |-> IF p = "p1" THEN d1 ELSE d2]
    /\ \E l1 \in {{IdA, IdAC}, Ids}, l2 \in SUBSET {IdAC} :
            logs = [p \in Projects |-> IF p = "p1" THEN LogsOf(l1) ELSE LogsOf(l2)]
    /\ unlistable \in SUBSET {"p1"}
    /\ files = SideFilesOf({IdA, IdAC})
    /\ todos = {}
    /\ todosListable = TRUE
    /\ unremovable = {}
    /\ tmp = [p \in Projects |-> AbsentDoc]
    /\ call = [c \in Calls |-> IdleCall]
    /\ out = <<>>
    /\ toDelete = {}
    /\ fresh = FALSE
    /\ parsed = {}
    /\ journal = NoJournal
    /\ scan = IdleScan
    /\ hung \in {h \in SUBSET HangChoices : Cardinality(h) <= MaxHung}
    /\ stderr = {}
    /\ fileStat = DefaultStat
    /\ rootListable \in BOOLEAN
    /\ faults \in SUBSET {<<"parse", SidePath("meta", IdA)>>}
    /\ scanResult = "none"
    /\ input = <<>>
    /\ output = <<>>

EnrichNext ==
    \/ ScanStart
    \/ \E i \in 1..MaxCandidates : EnrichDone(i)
    \/ ScanReturn

SpecEnrich == EnrichInit /\ [][EnrichNext]_vars

\* p1 indexes session a and holds the raw logs of the three sessions: three candidates
EnrichFairInit ==
    /\ index = [p \in Projects |-> IF p = "p1" THEN IndexDoc(<<IndexedEntry("p1", IdA)>>) ELSE AbsentDoc]
    /\ logs = [p \in Projects |-> IF p = "p1" THEN LogsOf(Ids) ELSE LogsOf({})]
    /\ unlistable = {}
    /\ files = SideFilesOf({IdA, IdAC})
    /\ todos = {}
    /\ todosListable = TRUE
    /\ unremovable = {}
    /\ tmp = [p \in Projects |-> AbsentDoc]
    /\ call = [c \in Calls |-> IdleCall]
    /\ out = <<>>
    /\ toDelete = {}
    /\ fresh = FALSE
    /\ parsed = {}
    /\ journal = NoJournal
    /\ scan = IdleScan
    /\ hung \in {h \in SUBSET HangChoices : Cardinality(h) <= MaxHung}
    /\ stderr = {}
    /\ fileStat = DefaultStat
    /\ rootListable = TRUE
    /\ faults \in SUBSET {<<"parse", SidePath("meta", IdA)>>, <<"stat", SidePath("debug", IdAC)>>}
    /\ scanResult = "none"
    /\ input = <<>>
    /\ output = <<>>

\* the event loop runs the callback of every promise that has resolved
SpecEnrichFair ==
    /\ EnrichFairInit
    /\ [][EnrichNext]_vars
    /\ \A i \in 1..MaxCandidates : WF_vars(EnrichDone(i))

-----------------------------------------------------------------------------
(* Two deleteSession calls that overlap *)

\* deleteSession(out[i]) is called in slot c without awaiting the call of the other
\* slot; each slot serves one call
OverlappingDelete(c, i) ==
    /\ call[c].pc = "idle"
    /\ i \in toDelete
    /\ toDelete' = toDelete \ {i}
    /\ DeleteStart(c, out[i])

\* p1 has an index over the sessions a and ac; the temporary index file may be
\* impossible to remove
ConcurrentInit ==
    /\ index \in {[p \in Projects |-> IF p = "p1" THEN d ELSE IndexDoc(<<>>)] :
                        d \in IndexChoices("p1", {IdA, IdAC})}
    /\ logs = [p \in Projects |-> IF p = "p1" THEN LogsOf({IdA, IdAC}) ELSE LogsOf({})]
    /\ unlistable = {}
    /\ files = SideFilesOf({IdA, IdAC})
    /\ todos = {IdA \o <<"-", "sub">>, IdAC \o <<"-", "other">>}
    /\ todosListable = TRUE
    /\ unremovable \in SUBSET {TmpPath("p1")}
    /\ tmp = [p \in Projects |-> AbsentDoc]
    /\ call = [c \in Calls |-> IdleCall]
    /\ out = <<>>
    /\ toDelete = {}
    /\ fresh = FALSE
    /\ parsed = {}
    /\ journal = NoJournal
    /\ scan = IdleScan
    /\ hung = {}
    /\ stderr = {}
    /\ fileStat = DefaultStat
    /\ rootListable = TRUE
    /\ faults = {}
    /\ scanResult = "none"
    /\ input = <<>>
    /\ output = <<>>

ConcurrentNext ==
    \/ Discover
    \/ \E c \in Calls, i \in toDelete : OverlappingDelete(c, i)
    \/ \E c \in Calls : ReadTodos(c)
    \/ \E c \in Calls : \E path \in SettleNext(call[c]) : RmSettle(c, path)
    \/ \E c \in Calls : AllSettled(c)
    \/ \E c \in Calls : ReadIndex(c)
    \/ \E c \in Calls : WriteTmp(c)
    \/ \E c \in Calls : Rename(c)

SpecConcurrent == ConcurrentInit /\ [][ConcurrentNext]_vars

-----------------------------------------------------------------------------
(* Properties of deleteSession *)

\* whether path names something that exists
PathExists(path) ==
    IF path[1] = "projects" THEN path[3] \in DOMAIN logs[path[2]]
    ELSE IF path[1] = "todos" THEN path[2] \in todos
    ELSE path \in files

\* the call c has returned
Returned(c) == call[c].pc = "done"

\* the todo pattern as the specification words it
NamedFor(f, id) ==
    \/ f = id
    \/ /\ Len(f) > Len(id)
       /\ \A k \in 1..Len(id) : f[k] = id[k]
       /\ f[Len(id) + 1] \in {"-", "."}

\* the k-th position of old whose entry is not the entry of id
KeptPosition(old, id, k) ==
    CHOOSE i \in 1..Len(old) :
        /\ old[i].sessionId # id
        /\ Cardinality({j \in 1..(i - 1) : old[j].sessionId # id}) = k - 1

\* C1: when a removal of a call has failed, the call returns with every index as it was
\* at the start of the call, so the entry of the session is still in it, and the failure
\* of each removal and the skipped index update are reported.
C1_FailureLeavesIndex ==
    \A c \in Calls :
        (Returned(c) /\ call[c].rejected # {}) =>
            /\ index = call[c].pre.index
            /\ IdOf(c) \in IndexedIds(call[c].pre.index, IndexOf(c))
                  => IdOf(c) \in IndexedIds(index, IndexOf(c))
            /\ <<"skipping index update", IdOf(c)>> \in stderr
            /\ \A r \in call[c].rejected : <<"deletion failed", IdOf(c), r>> \in stderr

C1_Witness ==
    /\ Returned(1)
    /\ call[1].rejected # {}
    /\ IdOf(1) \in IndexedIds(index, IndexOf(1))

C3_NoFileLeftAfterIndexRemoval ==
    \A c \in Calls :
        (/\ Returned(c)
         /\ IdOf(c) \in IndexedIds(call[c].pre.index, IndexOf(c))
         /\ IdOf(c) \notin IndexedIds(index, IndexOf(c))) =>
            /\ \A path \in Range(FixedDeletions(call[c].session[1])) : ~PathExists(path)
            /\ \A f \in todos : ~NamedFor(f, IdOf(c))

\* C4: the call removes from the todos area only files named for its session id (equal
\* to it, or starting with it and "-" or "."); every other file stays, and every file so
\* named whose removal did not fail is gone once the listed todos area has been processed.
C4_TodoSelection ==
    \A c \in Calls :
        /\ \A f \in call[c].pre.todos : (call[c].pc # "idle" /\ ~NamedFor(f, IdOf(c))) => f \in todos
        /\ (call[c].pc \notin {"idle", "todos"} /\ todosListable) =>
              {path \in Range(call[c].deletions) : path[1] = "todos"}
                  = {TodoPath(f) : f \in {g \in call[c].pre.todos : NamedFor(g, IdOf(c))}}
        /\ (Returned(c) /\ todosListable) =>
              \A f \in call[c].pre.todos :
                  (NamedFor(f, IdOf(c)) /\ TodoPath(f) \notin call[c].rejected) => f \notin todos

C4_Witness ==
    /\ Returned(1)
    /\ IdOf(1) = IdA
    /\ call[1].rejected = {}
    /\ {IdA, IdA \o <<"-", "sub">>, IdA \o <<".", "json">>, IdAC \o <<"-", "other">>} \subseteq call[1].pre.todos
    /\ todos \cap {IdA, IdA \o <<"-", "sub">>, IdA \o <<".", "json">>} = {}
    /\ IdAC \o <<"-", "other">> \in todos

\* C5: a call for session A leaves every file of every other session B as it was: the
\* raw logs, the side files and the todo files named for B.
C5_NoCollateralDeletion ==
    \A c \in Calls : \A b \in Ids :
        (call[c].pc # "idle" /\ b # IdOf(c)) =>
            /\ \A p \in Projects :
                  LogName(b) \in DOMAIN call[c].pre.logs[p] =>
                      /\ LogName(b) \in DOMAIN logs[p]
                      /\ logs[p][LogName(b)] = call[c].pre.logs[p][LogName(b)]
            /\ \A a \in SideAreas :
                  SidePath(a, b) \in call[c].pre.files => SidePath(a, b) \in files
            /\ \A f \in call[c].pre.todos : NamedFor(f, b) => f \in todos

\* C6: the decision about the index is taken only when no removal is pending, and by then
\* every removal the call issued has been carried out whatever the others did: it is
\* either reported as rejected or its target is gone; no index changes before.
C6_AllRemovalsSettle ==
    \A c \in Calls :
        /\ call[c].pc \in {"todos", "settle"} => index = call[c].pre.index
        /\ call[c].pc \in {"readIndex", "write", "rename", "done"} =>
              /\ call[c].pending = {}
              /\ Range(FixedDeletions(call[c].session[1])) \subseteq Range(call[c].deletions)
              /\ \A path \in Range(call[c].deletions) :
                    IF path \in unremovable THEN path \in call[c].rejected ELSE ~PathExists(path)

C6_Witness ==
    /\ Returned(1)
    /\ call[1].rejected = {SidePath("debug", IdA)}
    /\ Len(call[1].deletions) > 7
    /\ \A path \in Range(call[1].deletions) \ {SidePath("debug", IdA)} : ~PathExists(path)

\* C7: after a call that ended with a failed removal, the next discovery pass still
\* returns the session.
C7_VisibleAfterPartialFailure ==
    (fresh /\ Returned(1) /\ call[1].rejected # {}) =>
        \E i \in 1..Len(out) : out[i].entry.sessionId = IdOf(1)

\* C20: at every moment of a call, a failed write or rename and a stop at any step
\* included, the index of the project holds either the complete content it had when
\* the call started or that content without the entry of the session, never a partial
\* one; the new content goes to the temporary file first, and while it waits to be
\* renamed the index is still the old one.
C20_AtomicIndexRewrite ==
    /\ \A p \in Projects : index[p].kind # "partial"
    /\ \A c \in Calls :
          call[c].pc # "idle" =>
              LET old == call[c].pre.index[IndexOf(c)]
                  new == [old EXCEPT !.entries = SelectSeq(old.entries, LAMBDA e : e.sessionId # IdOf(c))]
              IN  /\ index[IndexOf(c)] = old \/ (old.kind = "doc" /\ index[IndexOf(c)] = new)
                  /\ call[c].pc = "rename" =>
                        /\ index[IndexOf(c)] = old
                        /\ tmp[IndexOf(c)] = new
                  /\ call[c].result = "writeFailed" => index[IndexOf(c)] = old

C20_Witness ==
    /\ Returned(1)
    /\ call[1].result = "writeFailed"
    /\ tmp[IndexOf(1)].kind = "partial"
    /\ index[IndexOf(1)] = call[1].pre.index[IndexOf(1)]
    /\ IdOf(1) \in IndexedIds(index, IndexOf(1))

\* the calls of both slots returned after rewriting the index of the same project for
\* two different sessions, every removal having succeeded
BothRewrote ==
    /\ \A c \in Calls : Returned(c) /\ call[c].result = "rewritten" /\ call[c].rejected = {}
    /\ IdOf(1) # IdOf(2)
    /\ IndexOf(1) = IndexOf(2)

\* C21: two overlapping calls for two sessions of one project can lose an update. When
\* both have rewritten the index, the index is the filtered copy of one of them (the
\* last rename wins): it never holds both entries, and it still holds the entry of a
\* deleted session only when the other call started before that session's entry was
\* removed, that is when the two calls overlapped.
C21_LostUpdate ==
    BothRewrote =>
        LET p == IndexOf(1)
        IN  /\ index[p] \in {call[1].newIndex, call[2].newIndex}
            /\ ~(IdOf(1) \in IndexedIds(index, p) /\ IdOf(2) \in IndexedIds(index, p))
            /\ \A c, d \in Calls :
                  (c # d /\ IdOf(c) \in IndexedIds(index, p)) =>
                      /\ IdOf(c) \in IndexedIds(call[d].pre.index, p)
                      /\ index[p] = call[d].newIndex

\* the lost update: both calls succeeded, the files of both sessions are gone, and the
\* index still lists session a
C21_Witness ==
    /\ BothRewrote
    /\ IdOf(1) = IdA
    /\ IdOf(2) = IdAC
    /\ IdA \in IndexedIds(index, "p1")
    /\ IdAC \notin IndexedIds(index, "p1")
    /\ \A path \in Range(FixedDeletions(call[1].session[1])) : ~PathExists(path)
    /\ \A path \in Range(FixedDeletions(call[2].session[1])) : ~PathExists(path)

\* the sessions of the list for which the command has called deleteSession
Deleted == {out[i] : i \in (1..Len(out)) \ toDelete}

\* no removal deleteSession issues for session s is refused by the file system
RemovalsSucceed(s) ==
    \A path \in unremovable :
        /\ path \notin Range(FixedDeletions(s))
        /\ ~(path[1] = "todos" /\ todosListable /\ NamedFor(path[2], s.entry.sessionId))

\* the entries of es that are not the entry of a session of D in project p
Remaining(es, D, p) ==
    SelectSeq(es, LAMBDA e : ~\E s \in D : s.projectDirName = p /\ s.entry.sessionId = e.sessionId)

\* every index is the one the command found, without the entries of the sessions of D
IndexesWithout(D) ==
    \A p \in Projects :
        IF journal.index[p].kind = "doc"
        THEN /\ index[p].kind = "doc"
             /\ index[p].entries = Remaining(journal.index[p].entries, D, p)
        ELSE index[p] = journal.index[p]

\* C22: the commands await each deleteSession, so at most one call is in progress; and
\* once the calls for a set D of sessions have returned, every removal having succeeded,
\* each index holds no entry of D and every other entry it had.
C22_SerializedDeletions ==
    /\ Cardinality({c \in Calls : InFlight(c)}) <= 1
    /\ ((\A c \in Calls : ~InFlight(c)) /\ scanResult = "returned"
            /\ \A s \in Deleted : RemovalsSucceed(s))
          => IndexesWithout(Deleted)

\* C22 as amended: the same when, besides every removal, every rewrite of an index
\* succeeded; a rewrite that fails is reported and leaves the entry in the index.
C22_SerializedDeletionsAmended ==
    /\ Cardinality({c \in Calls : InFlight(c)}) <= 1
    /\ ((\A c \in Calls : ~InFlight(c)) /\ scanResult = "returned"
            /\ \A s \in Deleted : RemovalsSucceed(s))
          => /\ journal.failed = {} => IndexesWithout(Deleted)
             /\ IndexesWithout({s \in Deleted : s.entry.sessionId \notin journal.failed})

C22_Witness ==
    /\ \A c \in Calls : ~InFlight(c)
    /\ journal.failed = {}
    /\ {s.entry.sessionId : s \in Deleted} = {IdA, IdAB}
    /\ \A s \in Deleted : RemovalsSucceed(s)
    /\ journal.index["p1"].kind = "doc"
    /\ Len(journal.index["p1"].entries) = 2
    /\ IndexedIds(index, "p1") = {IdAC}
    /\ IndexesWithout(Deleted)

-----------------------------------------------------------------------------
(* Properties of getAllSessions *)

\* the positions of the result that carry session id
Hits(id) == {i \in 1..Len(out) : out[i].entry.sessionId = id}

\* the assistant records of a log that carry a usage block
AssistantUsages(content) ==
    SelectSeq(content, LAMBDA l : l.kind = "obj" /\ l.type = "assistant" /\ l.usage # Undefined)

RECURSIVE InputSum(_)
InputSum(ls) ==
    IF ls = <<>> THEN 0
    ELSE Head(ls).usage[1].input_tokens + Head(ls).usage[1].cache_creation_input_tokens
            + Head(ls).usage[1].cache_read_input_tokens + InputSum(Tail(ls))

RECURSIVE OutputSum(_)
OutputSum(ls) ==
    IF ls = <<>> THEN 0 ELSE Head(ls).usage[1].output_tokens + OutputSum(Tail(ls))

\* C8: no two sessions of a discovery result share a sessionId.
C8_UniqueSessionIds ==
    fresh => \A i, j \in 1..Len(out) : out[i].entry.sessionId = out[j].entry.sessionId => i = j

\* C9: a session id that is both in a project's index and a raw log of that project is
\* returned exactly once, with the index's entry, and its raw log is not parsed.
C9_IndexTakesPrecedence ==
    fresh =>
        \A p \in Projects : \A id \in Ids :
            (id \in IndexedIds(index, p) /\ LogName(id) \in DOMAIN logs[p]) =>
                /\ Cardinality(Hits(id)) = 1
                /\ \A i \in Hits(id) :
                      /\ out[i].entry \in Range(EntriesOf(index[p]))
                      /\ out[i].projectDirName = p
                /\ <<p, LogName(id)>> \notin parsed

\* C10: a session that exists only as a raw log is returned exactly once, with
\* computedInputTokens the sum of input, cache-creation and cache-read tokens of the
\* assistant records and computedOutputTokens the sum of their output tokens.
C10_RawOnlyTokens ==
    fresh =>
        \A p \in Projects : \A id \in Ids :
            (LogName(id) \in DOMAIN logs[p] /\ id \notin IndexedIds(index, p)) =>
                /\ Cardinality(Hits(id)) = 1
                /\ \A i \in Hits(id) :
                      /\ out[i].computedInputTokens = Num(InputSum(AssistantUsages(logs[p][LogName(id)])))
                      /\ out[i].computedOutputTokens = Num(OutputSum(AssistantUsages(logs[p][LogName(id)])))

\* C10 as amended: a raw log with at least one non-blank line, in a project directory
\* that can be listed and whose index does not list its id, yields exactly one session
\* of that project directory; its computedInputTokens is the sum of input, cache-creation
\* and cache-read tokens of the assistant records, its computedOutputTokens the sum of
\* their output tokens, and a sum of zero is reported as undefined.
C10_RawOnlyTokensAmended ==
    fresh =>
        \A p \in Projects : \A id \in Ids :
            (/\ p \notin unlistable
             /\ LogName(id) \in DOMAIN logs[p]
             /\ id \notin IndexedIds(index, p)
             /\ \E k \in 1..Len(logs[p][LogName(id)]) : logs[p][LogName(id)][k] # BlankLine) =>
                LET mine == {i \in Hits(id) : out[i].projectDirName = p}
                    inSum == InputSum(AssistantUsages(logs[p][LogName(id)]))
                    outSum == OutputSum(AssistantUsages(logs[p][LogName(id)]))
                IN  /\ Cardinality(mine) = 1
                    /\ \A i \in mine :
                          /\ out[i].computedInputTokens = (IF inSum = 0 THEN Undefined ELSE Num(inSum))
                          /\ out[i].computedOutputTokens = (IF outSum = 0 THEN Undefined ELSE Num(outSum))

C10_Witness ==
    /\ fresh
    /\ IdA \notin IndexedIds(index, "p1")
    /\ ScanFocus \in DOMAIN logs["p1"]
    /\ Len(AssistantUsages(logs["p1"][ScanFocus])) = 2
    /\ \E i \in Hits(IdA) :
          /\ out[i].projectDirName = "p1"
          /\ out[i].computedInputTokens = Num(MaxTok + 3)
          /\ out[i].computedOutputTokens = Undefined

\* C25: a project directory that cannot be listed contributes no session to the
\* result, neither from its index nor from its raw logs; a warning names it, and the
\* sessions of the other project directories are returned.
C25_UnlistableDirSkipped ==
    fresh =>
        /\ \A p \in unlistable :
              /\ \A i \in 1..Len(out) : out[i].projectDirName # p
              /\ <<"skipped directory", p>> \in stderr
        /\ \A q \in Projects \ unlistable : \A id \in Ids :
              (\/ id \in IndexedIds(index, q)
               \/ /\ LogName(id) \in DOMAIN logs[q]
                  /\ \E k \in 1..Len(logs[q][LogName(id)]) : logs[q][LogName(id)][k] # BlankLine) =>
                  \E i \in Hits(id) : out[i].projectDirName = q

-----------------------------------------------------------------------------
(* Properties of parseJsonlSession *)

\* the content of the raw log p1/a.jsonl
FocusLog == logs["p1"][ScanFocus]

\* the records of a log that parse and are not custom-title records
Records(content) == SelectSeq(content, LAMBDA l : l.kind = "obj" /\ l.type # "custom-title")

\* the timestamps the records of a log carry
Stamps(content) ==
    {(IF l.timestamp # 0 THEN l.timestamp ELSE l.messageTimestamp) : l \in
        {r \in Range(Records(content)) : r.timestamp # 0 \/ r.messageTimestamp # 0}}

\* the user-turn records of a log
UserTurns(content) == SelectSeq(Records(content), LAMBDA l : l.type = "user" \/ l.role = "user")

\* the payload of a record, its own before its message's
Payload(l) == IF l.content.kind # "none" THEN l.content ELSE l.messageContent

TextParts(l) == SelectSeq(Payload(l).parts, LAMBDA part : part.type = "text")

\* the record carries a text: a string payload or a text segment
HasText(l) == Payload(l).kind = "string" \/ (Payload(l).kind = "array" /\ TextParts(l) # <<>>)

\* that text, cut at the prompt limit
CutText(l) ==
    LET t == IF Payload(l).kind = "string" THEN Payload(l).text ELSE TextParts(l)[1].text
    IN  IF Len(t) <= 231 THEN t ELSE [i \in 1..231 |-> t[i]]

\* C11: every entry of a discovery result has created <= modified; for a parsed log
\* created is the earliest and modified the latest timestamp of its records, or the
\* birth and modification time of the file when no record carries one.
C11_CreatedNotAfterModified ==
    fresh =>
        /\ \A i \in 1..Len(out) : out[i].entry.created <= out[i].entry.modified
        /\ \A i \in Hits(IdA) :
              LET ts == Stamps(FocusLog)
              IN  IF ts = {}
                  THEN /\ out[i].entry.created = fileStat.birthtimeMs
                       /\ out[i].entry.modified = fileStat.mtimeMs
                  ELSE /\ \A t \in ts : out[i].entry.created <= t /\ t <= out[i].entry.modified
                       /\ out[i].entry.created \in ts
                       /\ out[i].entry.modified \in ts

C13_NoParseableLineNoEntry ==
    fresh =>
        ((\A k \in 1..Len(FocusLog) : FocusLog[k].kind # "obj") => Hits(IdA) = {})

\* C14: a log with corrupt lines yields the entry the same log without those lines
\* yields (the session id and the path apart).
C14_CorruptLinesSkipped ==
    fresh =>
        LET comparable(s) == [s EXCEPT !.entry.sessionId = IdA, !.entry.fullPath = <<>>]
        IN  {comparable(out[i]) : i \in Hits(IdA)} = {comparable(out[i]) : i \in Hits(IdAC)}

-----------------------------------------------------------------------------
(* Properties of discovery under failures *)

\* a side-car of session id can be read and parsed
Readable(area, id) ==
    /\ SidePath(area, id) \in files
    /\ <<"readFile", SidePath(area, id)>> \notin faults
    /\ <<"parse", SidePath(area, id)>> \notin faults

\* the bytes one component of session id of project p contributes
Contribution(area, p, id) ==
    LET path == IF area = "projects" THEN <<"projects", p, LogName(id)>> ELSE SidePath(area, id)
        there == IF area = "projects" THEN LogName(id) \in DOMAIN logs[p] ELSE path \in files
        bytes == CASE area = "projects" -> 1
                   [] area = "debug" -> 2
                   [] area = "file-history" -> 4
                   [] area = "tasks" -> 8
                   [] area = "meta" -> 16
                   [] area = "facets" -> 32
    IN  IF there /\ <<"stat", path>> \notin faults /\ <<"readdir", path>> \notin faults
        THEN bytes ELSE 0

\* session id of project p is a candidate of the pass
Candidate(p, id) ==
    /\ rootListable
    /\ \/ id \in IndexedIds(index, p)
       \/ /\ p \notin unlistable
          /\ LogName(id) \in DOMAIN logs[p]
          /\ \A op \in {"readFile", "stat"} : <<op, <<"projects", p, LogName(id)>>>> \notin faults

\* C15: every candidate session is in the result whatever sub-fetch fails; its meta is
\* the metadata document when that can be read and undefined otherwise, its facets
\* likewise, and its size the sum of the components that can be measured, each of the
\* three whatever happens to the other two and to the files of other sessions.
C15_EnrichmentIsolated ==
    fresh =>
        /\ \A p \in Projects : \A id \in Ids :
              Candidate(p, id) => \E i \in Hits(id) : out[i].projectDirName = p
        /\ \A i \in 1..Len(out) :
              LET id == out[i].entry.sessionId
                  p == out[i].projectDirName
              IN  /\ out[i].meta = (IF Readable("meta", id) THEN <<MetaDoc(id)>> ELSE Undefined)
                  /\ out[i].facets = (IF Readable("facets", id) THEN <<FacetsDoc(id)>> ELSE Undefined)
                  /\ out[i].totalSizeBytes
                        = Contribution("projects", p, id) + Contribution("debug", p, id)
                            + Contribution("file-history", p, id) + Contribution("tasks", p, id)
                            + Contribution("meta", p, id) + Contribution("facets", p, id)

C15_Witness ==
    /\ fresh
    /\ faults = {<<"parse", SidePath("meta", IdA)>>, <<"stat", SidePath("debug", IdA)>>}
    /\ \E i \in Hits(IdA) :
          /\ out[i].meta = Undefined
          /\ out[i].facets = <<FacetsDoc(IdA)>>
          /\ out[i].totalSizeBytes = 61
    /\ \E i \in Hits(IdAC) :
          /\ out[i].meta = <<MetaDoc(IdAC)>>
          /\ out[i].totalSizeBytes = 63

\* C16: a discovery pass never rejects, whatever file is missing, unreadable or
\* malformed, an index document included; when the root projects directory cannot be
\* listed it resolves to the empty list.
C16_NeverThrows ==
    /\ scanResult # "rejected"
    /\ (scanResult = "returned" /\ ~rootListable) => out = <<>>

-----------------------------------------------------------------------------
(* Properties of getSessionLabel *)

\* the label sources of a session in the order of precedence
Sources(session) ==
    <<session.entry.customTitle,
      session.entry.summary,
      IF session.facets = Undefined THEN Undefined ELSE <<session.facets[1].brief_summary>>,
      IF session.meta = Undefined THEN Undefined ELSE <<session.meta[1].first_prompt>>,
      <<session.entry.firstPrompt>>>>

HasTag(t) ==
    \E i \in 1..Len(t) :
        /\ t[i] = "<"
        /\ \E j \in (i + 2)..Len(t) : t[j] = ">" /\ \A m \in (i + 1)..(j - 1) : t[m] # ">"

\* C28: the label of a session whose label comes from one of its text sources holds
\* no tag, and neither does the cleaned text of any of its sources.
C28_NoTagInLabel ==
    output # Undefined =>
        LET srcs == Sources(input)
        IN  /\ (\E k \in 1..5 : srcs[k] # Undefined /\ isRealPrompt(srcs[k][1])) =>
                  ~HasTag(output[1])
            /\ \A k \in 1..5 : srcs[k] # Undefined => ~HasTag(cleanPrompt(srcs[k][1]))

-----------------------------------------------------------------------------
(* Properties of searchSessions *)

\* the lower-cased pieces of a query between its runs of white space
QueryTerms(q) ==
    LET low == [i \in 1..Len(q) |-> LowerChar(q[i])]
        starts == {i \in 1..(Len(low) + 1) : i = 1 \/ IsSpace(low[i - 1])}
        ends(i) == CHOOSE j \in i..(Len(low) + 1) :
                      /\ j = Len(low) + 1 \/ IsSpace(low[j])
                      /\ \A k \in i..(j - 1) : ~IsSpace(low[k])
    IN  {SubSeq(low, i, ends(i) - 1) : i \in {k \in starts : k > Len(low) \/ ~IsSpace(low[k]) \/ k = 1}}

\* some term of the query occurs in the searchable string of the session
Matches(s, q) == \E term \in QueryTerms(q) : Includes(Searchable(s), term)

\* C18: the result holds exactly the sessions of the input with a nonzero score (those
\* in which a term of the query occurs), each once and no other, in an order of
\* non-increasing score; when no session matches it is empty.
C18_SearchResult ==
    output # Undefined =>
        LET res == output[1]
            terms == Split(toLowerCase(input.query))
        IN  /\ Range(res) = {s \in Range(input.sessions) : Matches(s, input.query)}
            /\ Injective(res)
            /\ \A i, j \in 1..Len(res) :
                  i < j => ScoreOf(Searchable(res[i]), terms) >= ScoreOf(Searchable(res[j]), terms)
            /\ (\A s \in Range(input.sessions) : ~Matches(s, input.query)) => res = <<>>

C18_Witness ==
    /\ output # Undefined
    /\ input.query = <<"a", "b", " ", "c">>
    /\ Len(input.sessions) = 3
    /\ input.sessions[1].entry.sessionId = <<"4">>
    /\ input.sessions[2].entry.sessionId = <<"2">>
    /\ input.sessions[3].entry.sessionId = <<"1">>
    /\ Len(output[1]) = 2
    /\ output[1][1].entry.sessionId = <<"1">>
    /\ output[1][2].entry.sessionId = <<"2">>

\* a character of a word: neither white space nor punctuation
IsWordChar(ch) == ~IsSpace(ch) /\ ch \notin {"/", "-", ".", ":", "<", ">", "[", "]"}

\* term occurs in t as a whole word: an occurrence with no character of a word right
\* before it and none right after it
WholeWord(t, term) ==
    \E i \in 0..(Len(t) - Len(term)) :
        /\ SubSeq(t, i + 1, i + Len(term)) = term
        /\ i = 0 \/ ~IsWordChar(t[i])
        /\ i + Len(term) = Len(t) \/ ~IsWordChar(t[i + Len(term) + 1])

\* the position of session s in the result res
PositionIn(res, s) == CHOOSE i \in 1..Len(res) : res[i] = s

\* C29: every term of the query adds to the score of a session one point when it
\* occurs in the searchable string and a further half point when it occurs there as a
\* whole word; for a query of one term, a session with a whole-word match comes before
\* every session that matches the term only inside a longer word.
C29_WholeWordBonus ==
    output # Undefined =>
        LET terms == Split(toLowerCase(input.query))
            words == {terms[k] : k \in {n \in 1..Len(terms) : terms[n] # <<>>}}
            res == output[1]
        IN  /\ \A s \in Range(input.sessions) : \A term \in words :
                  ScoreOf(Searchable(s), <<term>>)
                      = (IF Includes(Searchable(s), term) THEN TermScore ELSE 0)
                          + (IF WholeWord(Searchable(s), term)
                             THEN SEARCH_WORD_BOUNDARY_BONUS ELSE 0)
            /\ Len(terms) = 1 =>
                  \A s1, s2 \in Range(res) : \A term \in words :
                      (WholeWord(Searchable(s1), term) /\ ~WholeWord(Searchable(s2), term))
                          => PositionIn(res, s1) < PositionIn(res, s2)

-----------------------------------------------------------------------------
(* Properties of calculateSessionSize *)

\* the bytes of the regular files under a listing, every level included
RECURSIVE Bytes(_)
Bytes(es) ==
    IF es = <<>> THEN 0
    ELSE LET e == Head(es)
         IN  (IF e.type = "file" /\ e.size # Undefined THEN e.size[1]
              ELSE IF e.type = "dir" /\ e.children # Undefined THEN Bytes(e.children[1])
              ELSE 0) + Bytes(Tail(es))

\* something under the listing cannot be measured or listed
RECURSIVE Unreadable(_)
Unreadable(es) ==
    \E i \in 1..Len(es) :
        \/ es[i].type = "file" /\ es[i].size = Undefined
        \/ es[i].type = "dir" /\ (es[i].children = Undefined \/ Unreadable(es[i].children[1]))

\* the bytes of a file of the input, 0 when it is missing or cannot be measured
FileBytes(path) == IF path \in DOMAIN input.fs.stat THEN input.fs.stat[path] ELSE 0

\* the bytes under a directory of the input, 0 when it is missing or cannot be listed
DirBytes(path) == IF path \in DOMAIN input.fs.dirs THEN Bytes(input.fs.dirs[path]) ELSE 0

DirUnreadable(path) == path \in DOMAIN input.fs.dirs /\ Unreadable(input.fs.dirs[path])

\* C19: the size is the sum of the raw log, the debug transcript, the files under the
\* file-history directory, the files under the task directory and the two side-cars of
\* the session, a missing or unreadable component counting 0 (a directory readable in
\* part counts between 0 and its readable files); it is 0 when nothing exists.
C19_SizeIsSum ==
    output # Undefined =>
        LET id == input.sessionId
            fixed == FileBytes(<<"projects", input.jsonlPath[1], input.jsonlPath[2]>>)
                        + FileBytes(SidePath("debug", id)) + FileBytes(SidePath("meta", id))
                        + FileBytes(SidePath("facets", id))
            fh == SidePath("file-history", id)
            tk == SidePath("tasks", id)
        IN  /\ output[1] <= fixed + DirBytes(fh) + DirBytes(tk)
            /\ output[1] >= fixed + (IF DirUnreadable(fh) THEN 0 ELSE DirBytes(fh))
                                   + (IF DirUnreadable(tk) THEN 0 ELSE DirBytes(tk))

C19_Witness ==
    /\ output = <<1 + 2 + 16 + 32 + (64 + 1024) + 0>>
    /\ DOMAIN input.fs.dirs
          = {SidePath("file-history", IdA), SidePath("file-history", IdAC), SidePath("tasks", IdAC)}
    /\ input.fs.dirs[SidePath("file-history", IdA)]
          = <<FileNode(Num(64)), DirNode(<<<<FileNode(Num(1024))>>>>)>>

-----------------------------------------------------------------------------
(* Properties of the enrichment phase *)

\* the candidate sessions of a pass, by project directory and session id
Candidates == {pid \in Projects \X Ids : Candidate(pid[1], pid[2])}

\* C23: with T candidate sessions the callback is invoked once after each enrichment
\* that completes, in every completion order: the k-th invocation carries (k, T), and
\* when the pass returns it has been invoked exactly T times, the last time with
\* (T, T). A pass that ends before the enrichment phase never invokes it.
C23_ProgressCounts ==
    LET T == Cardinality(Candidates)
    IN  /\ scan.pc \in {"idle", "rejected"} => scan.progress = <<>>
        /\ scan.pc \in {"enrich", "returned"} =>
              /\ scan.total = T
              /\ Len(scan.progress) = scan.total - Cardinality(scan.pending)
              /\ \A k \in 1..Len(scan.progress) : scan.progress[k] = <<k, scan.total>>
        /\ scan.pc = "returned" =>
              /\ Len(scan.progress) = scan.total
              /\ Len(out) = scan.total
              /\ out = getAllSessions(logs, index, unlistable, files, fileStat, faults, rootListable)

\* three candidates, the third completed first and the first still pending: the two
\* invocations so far carried (1, 3) and (2, 3)
C23_Witness ==
    /\ scan.pc = "enrich"
    /\ scan.total = 3
    /\ scan.pending = {1}
    /\ DOMAIN scan.results = {2, 3}
    /\ scan.progress = <<<<1, 3>>, <<2, 3>>>>
    /\ hung = {}

\* candidate i of the pass in progress has no operation that hangs
Responsive(i) == scan.pc = "enrich" /\ i <= scan.total /\ ~Hangs(hung, scan.raws[i])

\* the enrichment of candidate i has completed and the callback has been invoked for it
Completed(i) ==
    /\ i \notin scan.pending
    /\ i \in DOMAIN scan.results
    /\ Len(scan.progress) = scan.total - Cardinality(scan.pending)

-----------------------------------------------------------------------------
(* Properties of the project path *)

\* C27: the project path decoded from the directory name that encodes the absolute
\* path p is p.
C27_DecodeReversesEncode ==
    output # Undefined => output[1] = input

\* C27 as amended: the decoded path is p exactly when p holds no joining character
\* "-" and does not begin with two separators; a "-" of p never comes back, the
\* decoded path holds none.
C27_DecodeReversesEncodeAmended ==
    output # Undefined =>
        /\ output[1] = input <=>
              /\ \A i \in 1..Len(input) : input[i] # "-"
              /\ ~(Len(input) >= 2 /\ input[2] = "/")
        /\ \A i \in 1..Len(output[1]) : output[1][i] # "-"

C27_Witness ==
    /\ input = <<"/", "a", "/", "b", "b">>
    /\ output = <<<<"/", "a", "/", "b", "b">>>>

-----------------------------------------------------------------------------
(* Properties of sessionTokens and sessionDuration *)

\* C30: for a session with meta, sessionTokens is the sum of the input and output
\* tokens of meta and sessionDuration is the duration of meta; for a session without
\* meta they are the sum of the computed tokens (0 when there is none) and the
\* computed duration (undefined when there is none).
C30_MetaBeforeComputed ==
    output # Undefined =>
        LET s == input
            r == output[1]
        IN  /\ (r.fn = "sessionTokens" /\ s.meta # Undefined) =>
                  r.value = Num(OrZero(s.meta[1].input_tokens) + OrZero(s.meta[1].output_tokens))
            /\ (r.fn = "sessionDuration" /\ s.meta # Undefined) =>
                  r.value = s.meta[1].duration_minutes
            /\ (r.fn = "sessionTokens" /\ s.meta = Undefined) =>
                  r.value = Num(OrZero(s.computedInputTokens) + OrZero(s.computedOutputTokens))
            /\ (r.fn = "sessionDuration" /\ s.meta = Undefined) =>
                  r.value = s.computedDurationMinutes

====
